---- MODULE Spec2Model ----
(***************************************************************************)
(* Loop closing of ORB_SLAM2_Refactored: the main loop of LoopClosingImpl, *)
(* the LoopCorrector, the detachable GlobalBA worker, and the threads they *)
(* share state with (local mapper, tracking/System thread).                *)
(*                                                                         *)
(* Threads: "LC" runs LoopClosingImpl::Run; "LM" is the local mapper;      *)
(* "TR" is the thread that calls System::Track* / Shutdown; 1..MaxTasks    *)
(* are the std::threads GlobalBA::Run spawns.                              *)
(***************************************************************************)
EXTENDS Integers, Sequences, FiniteSets, TLC

\* ------------------------------------------------------------------ bounds
MaxKF == 3          \* InsertKeyFrame calls in a run
MaxTasks == 2       \* global-BA workers spawned in a run
MaxSysReq == 1      \* localization-mode and reset requests in a run
MaxDetKF == 6       \* keyframes handed to the Detector in a run of DetectorSpec
MaxCand == 2        \* loop candidates a database query returns
MaxUpdKF == 3       \* keyframes of the map the global-BA worker updates
MaxFindLoop == 2    \* FindLoopInCandidateKFs calls in a run of SolverSpec
MaxIterate == 2     \* iterate calls after which a solver reports terminate()
MaxStream == 2      \* keyframes of the stream the Detector is run on twice

\* Detect's admission filter: currentKF->id < lastLoopKFId + 10
MinLoopGap == 10

\* LoopDetector's constructor: minConsistency_(3)
minConsistency == 3

\* Detect's acceptance test after the projection search: nmatches >= 40
MinMatches == 40

\* FindLoopInCandidateKFs: nmatches < 20 after SearchByBoW discards a candidate
MinBoW == 20

\* FindLoopInCandidateKFs: nInliers >= 20 after OptimizeSim3 accepts a candidate
MinInliers == 20

\* numbers of matched slots the projection search may leave
MatchCounts == {MinMatches - 1, MinMatches}

\* gaps between the ids of successively inserted keyframes
IdGaps == {1, MinLoopGap}

Workers == 1..MaxTasks

\* the five locks of LOCK_MUTEX_*, in the documented order
LockRank == [Queue |-> 1, Finish |-> 2, Reset |-> 3, GBA |-> 4, Map |-> 5]
Locks == DOMAIN LockRank

\* the lock that is documented to guard a piece of state
GuardOf == [queue |-> "Queue", lastLoopKFId |-> "Queue",
            running |-> "GBA", finished |-> "GBA", stop |-> "GBA", fullBAIdx |-> "GBA"]

VARIABLES
    \* LoopClosingImpl
    lcPc, keyFrameQueue, lastLoopKFId, resetRequested, finishRequested, lcFinished,
    currentKF, found,
    \* GlobalBA and its workers
    running, gbaFinished, stop, fullBAIdx, thread, nTasks, wPc, wIdx, wLoopKF,
    \* LocalMapping (stop handshake)
    lmStopRequested, lmStopped, lmFinishRequested, lmFinished,
    \* System: ModeManager, the thread calling Track*/Shutdown
    trPc, activateMode, deactivateMode, nSysReq,
    \* Map, KeyFrameDatabase
    bigChangeId, keyframeDB,
    \* locks held across steps
    held,
    \* history: lock acquisitions, guarded-state accesses, map mutations,
    \* keyframes inserted / handed to the Detector, processed resets, workers
    \* that existed when Stop() was called
    acqs, acc, mut, inserted, handed, nInserted, lastInsertedId, resetsDone, aborted,
    \* history: the keyframe of the most recent completed correction (0 after a
    \* processed reset), the keyframes with a SetNotErase not yet followed by a
    \* SetErase, whether InsertKeyFrame ran during the RequestReset call in
    \* progress, the keyframes the running main loop dequeued since RequestFinish
    lastCorrected, notErase, resetInsert, popsSinceFinish,
    \* LoopDetector and the calls the main loop makes around Detect, run on
    \* their own (DetectorSpec)
    dPc, nDetected, dCurrentKF, dLastLoopKFId, dFound, outcome,
    prevConsistentGroups, tmpCandidateKFs, candidateKFs, chain, holds,
    matchedKF, nmatches,
    \* LoopCorrector::Correct on the map, run on its own (CorrectorSpec): the
    \* step, the current keyframe and loop.Scw; per keyframe its pose, its map
    \* point matches and its stored covisible keyframes; per map point isBad,
    \* the world position and the stamps; Correct's locals; the keys of
    \* CorrectedSim3 not yet visited; history: how often a point was mapped
    cPc, cCurrentKF, Scw, pose, mapPointMatches, isBad, worldPos, correctedByKF,
    correctedReference, covisible, connectedKFs, CorrectedSim3, NonCorrectedSim3,
    toCorrect, LoopConnections, nMapped,
    \* the global-BA worker's map update, run on its own (UpdateSpec): the
    \* step; per keyframe its children, its pose, TcwGBA, TcwBefGBA and its
    \* BAGlobalForKF stamp; the map's origins; the walk's list; per map point
    \* isBad, the stamp, the reference keyframe and the position; the map
    \* points not yet visited; history: the keyframes the walk visited, in order
    uPc, children, keyFrameOrigins, kfPose, TcwGBA, TcwBefGBA, kfBAGlobalForKF, toCheck,
    mpIsBad, mpBAGlobalForKF, mpReferenceKF, mpWorldPos, mpPending, visited,
    \* the loop closer's fixScale from its creation to the optimizations, and
    \* FindLoopInCandidateKFs, run on their own (SolverSpec): the step, the
    \* sensor, the members fixScale_ of the detector and of the corrector, the
    \* parameter fixScale, the calls made; per candidate isBad and the BoW
    \* matches at set-up, discarded, the iterate calls made; the locals and
    \* the result; history: the fixScale values passed on, how often a
    \* candidate was discarded
    sPc, sensor, detFixScale, corrFixScale, fixScale, nFindLoop, ninitialCandidates,
    candBad, candBoW, discarded, ncandidates, sIdx, iterations, sFound, sMatched, nInliers,
    scaleArgs, nDiscards,
    \* the Detector run twice on one stream (RerunSpec): the step, the run, the
    \* position in the stream and its length, the lastLoopKFId argument, the
    \* answers of the database, solver and matcher per call, the detector state
    \* both runs start from, prevConsistentGroups_, the loopPointForKF stamp of
    \* each map point; history: per run the results and the caches after each
    \* call
    rPc, rRun, rPos, rLen, rLastLoopKFId, rAnswers, rCache0, rCache, loopPointForKF,
    rResults, rCaches

lcVars == <<lcPc, keyFrameQueue, lastLoopKFId, resetRequested, finishRequested, lcFinished,
            currentKF, found>>
gbaVars == <<running, gbaFinished, stop, fullBAIdx, thread, nTasks, wPc, wIdx, wLoopKF>>
lmVars == <<lmStopRequested, lmStopped, lmFinishRequested, lmFinished>>
sysVars == <<trPc, activateMode, deactivateMode, nSysReq>>
mapVars == <<bigChangeId, keyframeDB>>
histVars == <<acqs, acc, mut, inserted, handed, nInserted, lastInsertedId, resetsDone, aborted>>
ghostVars == <<lastCorrected, notErase, resetInsert, popsSinceFinish>>
detVars == <<dPc, nDetected, dCurrentKF, dLastLoopKFId, dFound, outcome,
             prevConsistentGroups, tmpCandidateKFs, candidateKFs, chain, holds,
             matchedKF, nmatches>>
corrVars == <<cPc, cCurrentKF, Scw, pose, mapPointMatches, isBad, worldPos, correctedByKF,
              correctedReference, covisible, connectedKFs, CorrectedSim3, NonCorrectedSim3,
              toCorrect, LoopConnections, nMapped>>
updVars == <<uPc, children, keyFrameOrigins, kfPose, TcwGBA, TcwBefGBA, kfBAGlobalForKF,
             toCheck, mpIsBad, mpBAGlobalForKF, mpReferenceKF, mpWorldPos, mpPending, visited>>
solVars == <<sPc, sensor, detFixScale, corrFixScale, fixScale, nFindLoop, ninitialCandidates,
             candBad, candBoW, discarded, ncandidates, sIdx, iterations, sFound, sMatched,
             nInliers, scaleArgs, nDiscards>>
rerunVars == <<rPc, rRun, rPos, rLen, rLastLoopKFId, rAnswers, rCache0, rCache,
               loopPointForKF, rResults, rCaches>>
vars == <<lcVars, gbaVars, lmVars, sysVars, mapVars, held, histVars, ghostVars, detVars,
          corrVars, updVars, solVars, rerunVars>>

\* ------------------------------------------------------------------ locks
\* Only the workers keep a lock across steps (held); every lock scope of the
\* other threads opens and closes inside one step, where they hold NoLocks.
NoLocks == {}
LockFree(l) == \A w \in Workers : l \notin held[w]

\* acquisitions of the locks of ls, in that order, at a code site by a thread
\* that holds the locks h: each is recorded with the locks held at that moment
AcqLog(h, site, ls) ==
    {<<site, ls[i], h \cup {ls[j] : j \in 1..(i - 1)}>> : i \in 1..Len(ls)}

\* accesses at a code site to the guarded state vs, by a thread that holds the
\* locks h
AccLog(h, site, vs) ==
    {<<v, site, GuardOf[v] \in h>> : v \in vs}

\* map mutations of the given kinds at a code site, by a thread that holds the
\* locks h
MutLog(h, site, kinds) ==
    {<<k, site, "Map" \in h>> : k \in kinds}

\* ------------------------------------------------------------ LocalMapping
\* LocalMapping::RequestStop
RequestStop == lmStopRequested' = TRUE

\* LocalMapping::Release: clears the stopped state and the request, unless the
\* local mapper has finished
Release ==
    IF lmFinished
    THEN UNCHANGED <<lmStopped, lmStopRequested>>
    ELSE lmStopped' = FALSE /\ lmStopRequested' = FALSE

\* ------------------------------------------------------------- LoopDetector
\* the keyframes of the database that a query can return as loop candidates
MapKFs == {1, 2}

\* a loop candidate: a keyframe of the database with the keyframes connected
\* to it in the covisibility graph at the time of the query
Candidates ==
    UNION {{[kf |-> k, conn |-> c] : c \in SUBSET (MapKFs \ {k})} : k \in MapKFs}

\* keyFrameDB_->DetectLoopCandidates(currentKF, minScore): up to MaxCand
\* distinct keyframes
CandidateLists ==
    {s \in UNION {[1..n -> Candidates] : n \in 0..MaxCand} :
        \A i, j \in DOMAIN s : s[i].kf = s[j].kf => i = j}

\* the covisibility groups a call can produce
Groups == (SUBSET MapKFs) \ {{}}

\* currGroup = candidateKF->GetConnectedKeyFrames(); currGroup.insert(candidateKF)
GroupOf(c) == c.conn \cup {c.kf}

\* the lambda IsConsistent of Detect: the groups share a keyframe
IsConsistent(prevGroup, currGroup) == \E k \in currGroup : k \in prevGroup

\* the elements of a set of indices in increasing order (consistentGroupsIds)
RECURSIVE Ascending(_)
Ascending(S) ==
    IF S = {} THEN <<>>
    ELSE LET m == CHOOSE x \in S : \A y \in S : x <= y
         IN <<m>> \o Ascending(S \ {m})

\* CheckConsistency without the consistentFound marks: a cached group is never
\* recorded as used
RECURSIVE CheckConsistency_NoMark(_, _, _, _, _, _)
CheckConsistency_NoMark(prev, tmp, i, curr, consistentFound, cands) ==
    IF i > Len(tmp) THEN [curr |-> curr, cands |-> cands]
    ELSE
      LET currGroup == GroupOf(tmp[i])
          consistentGroupsIds ==
              {iG \in 1..Len(prev) : IsConsistent(prev[iG][1], currGroup)}
          fresh == Ascending(consistentGroupsIds)
          pushed == [n \in 1..Len(fresh) |-> <<currGroup, prev[fresh[n]][2] + 1>>]
          admit == \E iG \in consistentGroupsIds : prev[iG][2] + 1 >= minConsistency
          curr2 == IF consistentGroupsIds = {}
                   THEN Append(curr, <<currGroup, 0>>)
                   ELSE curr \o pushed
      IN CheckConsistency_NoMark(prev, tmp, i + 1, curr2, consistentFound,
                                 IF admit THEN Append(cands, i) ELSE cands)

\* CheckConsistency appending the new groups to the old cache
RECURSIVE CheckConsistency_KeepOld(_, _, _, _, _, _)
CheckConsistency_KeepOld(prev, tmp, i, curr, consistentFound, cands) ==
    IF i > Len(tmp) THEN [curr |-> prev \o curr, cands |-> cands]
    ELSE
      LET currGroup == GroupOf(tmp[i])
          consistentGroupsIds ==
              {iG \in 1..Len(prev) : IsConsistent(prev[iG][1], currGroup)}
          fresh == Ascending(consistentGroupsIds \ consistentFound)
          pushed == [n \in 1..Len(fresh) |-> <<currGroup, prev[fresh[n]][2] + 1>>]
          admit == \E iG \in consistentGroupsIds : prev[iG][2] + 1 >= minConsistency
          curr2 == IF consistentGroupsIds = {}
                   THEN Append(curr, <<currGroup, 0>>)
                   ELSE curr \o pushed
      IN CheckConsistency_KeepOld(prev, tmp, i + 1, curr2,
                                  consistentFound \cup consistentGroupsIds,
                                  IF admit THEN Append(cands, i) ELSE cands)

\* Detect's loop over tmpCandidateKFs from candidate i on: prev is
\* prevConsistentGroups_ (pairs <<group, consistency>>), curr is
\* currConsistentGroups, consistentFound the indices of prev already marked,
\* cands the indices of the candidates pushed to candidateKFs
RECURSIVE CheckConsistency(_, _, _, _, _, _)
CheckConsistency(prev, tmp, i, curr, consistentFound, cands) ==
    IF i > Len(tmp) THEN [curr |-> curr, cands |-> cands]
    ELSE
      LET currGroup == GroupOf(tmp[i])
          consistentGroupsIds ==
              {iG \in 1..Len(prev) : IsConsistent(prev[iG][1], currGroup)}
          fresh == Ascending(consistentGroupsIds \ consistentFound)
          pushed == [n \in 1..Len(fresh) |-> <<currGroup, prev[fresh[n]][2] + 1>>]
          admit == \E iG \in consistentGroupsIds : prev[iG][2] + 1 >= minConsistency
          curr2 == IF consistentGroupsIds = {}
                   THEN Append(curr, <<currGroup, 0>>)
                   ELSE curr \o pushed
      IN CheckConsistency(prev, tmp, i + 1, curr2,
                          consistentFound \cup consistentGroupsIds,
                          IF admit THEN Append(cands, i) ELSE cands)

\* the length of the longest run of consecutive Detect calls, ending with the
\* call that returned tmp, in which each call produced a group consistent with
\* a group of the call before; per group of the last call, 0 for the others
ChainAfter(ch, tmp) ==
    [g \in Groups |->
        IF \E i \in DOMAIN tmp : GroupOf(tmp[i]) = g
        THEN 1 + (CHOOSE m \in 0..MaxDetKF :
                     /\ \A h \in Groups : IsConsistent(h, g) => ch[h] <= m
                     /\ (m = 0 \/ \E h \in Groups : IsConsistent(h, g) /\ ch[h] = m))
        ELSE 0]
NoChain == [g \in Groups |-> 0]

\* SetNotErase / SetErase calls of one iteration, per keyframe: <<number of
\* SetNotErase, number of SetErase>>; CurrentKF stands for the current keyframe
CurrentKF == 0
NoHolds == [k \in {CurrentKF} \cup MapKFs |-> <<0, 0>>]
SetNotErase(h, K) == [k \in DOMAIN h |-> IF k \in K THEN <<h[k][1] + 1, h[k][2]>> ELSE h[k]]
SetErase(h, K) == [k \in DOMAIN h |-> IF k \in K THEN <<h[k][1], h[k][2] + 1>> ELSE h[k]]

\* ---------------------------------------------- LoopCorrector::Correct, data
\* the keyframes and the map points of the map Correct works on; keyframes are
\* named by their ids
CorrKFs == {1, 2, MinLoopGap, 2 * MinLoopGap}
MapPoints == {1, 2}

\* poses and points on a line: a camera pose is a translation, a Sim3 a
\* translation t and a scale s

\* Sim3(const CameraPose&): the pose with scale 1
Sim3OfPose(T) == [t |-> T, s |-> 1]

\* Sim3 product a * b: b is applied first
Compose(a, b) == [t |-> a.s * b.t + a.t, s |-> a.s * b.s]

\* Sim3::Inverse
Inverse(a) == [t |-> (0 - a.t) \div a.s, s |-> 1 \div a.s]

\* Sim3::Map
MapBy(a, P) == a.s * P + a.t

\* CameraPose(R, invs * t) of a Sim3: the translation divided by the scale
PoseOfSim3(a) == a.t \div a.s

\* the poses and the point positions before the correction
InitialPose(k) == 7 * k
InitialWorldPos(p) == 100 + p

\* the keyframes sharing a map point that is not bad with keyframe k, given
\* the observations obs and the bad points bad
SharedWith(k, obs, bad) == {j \in CorrKFs \ {k} : (obs[j] \cap obs[k]) \ bad # {}}

NoSim3 == [k \in {} |-> Sim3OfPose(0)]
NoConnections == [k \in {} |-> {}]

\* ---- the data of the global-BA worker's map update (UpdateSpec)
UpdKFs == 1..MaxUpdKF

\* the loopKFId the worker was started with
GBALoopKF == 2 * MinLoopGap

\* a camera pose on a line: an orientation r (1 or -1) and a translation t

\* CameraPose product a * b: b is applied first
PoseCompose(a, b) == [r |-> a.r * b.r, t |-> a.r * b.t + a.t]

\* CameraPose::Inverse
PoseInverse(a) == [r |-> a.r, t |-> 0 - a.r * a.t]

\* R * X + t of a pose
PoseMap(a, X) == a.r * X + a.t

IdentityPose == [r |-> 1, t |-> 0]

\* the pose of keyframe k when the worker takes the map lock
PoseBefore(k) == [r |-> IF k = 2 THEN 0 - 1 ELSE 1, t |-> 7 * k]

\* the TcwGBA the bundle adjustment stored in a keyframe it optimized
OptimizedPose(k) == [r |-> 1, t |-> 7 * k + k]

\* the posGBA the bundle adjustment stored in a map point it optimized
OptimizedPos(p) == 200 + p

\* the spanning trees: each keyframe's parent (0 for none) was created before it
Parents == {par \in [UpdKFs -> 0..MaxUpdKF] : \A k \in UpdKFs : par[k] < k}

\* KeyFrame::GetChildren under the parent links par
ChildrenOf(par, k) == {c \in UpdKFs : par[c] = k}

\* the orders in which a container holding the set S can be iterated
Orderings(S) ==
    {s \in [1..Cardinality(S) -> S] : \A i, j \in 1..Cardinality(S) : s[i] = s[j] => i = j}

UpdInit ==
    /\ uPc = "u_idle"
    /\ children = [k \in UpdKFs |-> {}]
    /\ keyFrameOrigins = <<>>
    /\ kfPose = [k \in UpdKFs |-> PoseBefore(k)]
    /\ TcwGBA = [k \in UpdKFs |-> IdentityPose]
    /\ TcwBefGBA = [k \in UpdKFs |-> IdentityPose]
    /\ kfBAGlobalForKF = [k \in UpdKFs |-> 0]
    /\ toCheck = <<>>
    /\ visited = <<>>
    /\ mpIsBad = {}
    /\ mpBAGlobalForKF = [p \in MapPoints |-> 0]
    /\ mpReferenceKF = [p \in MapPoints |-> 1]
    /\ mpWorldPos = [p \in MapPoints |-> InitialWorldPos(p)]
    /\ mpPending = {}

\* ---- the data of the similarity search (SolverSpec)
\* System's sensor types
Sensors == {"MONOCULAR", "STEREO", "RGBD"}

\* the argument System gives the local mapper: mSensor == MONOCULAR
FixScaleOf_Monocular(s) == s = "MONOCULAR"

\* the fixScale argument System gives LoopClosing::Create: mSensor != MONOCULAR
FixScaleOf(s) == s # "MONOCULAR"

\* numbers of matches SearchByBoW may return, numbers of inliers OptimizeSim3
\* may return
BoWCounts == {MinBoW - 1, MinBoW}
InlierCounts == {MinInliers - 1, MinInliers}

CandidateIdx == 1..MaxCand

SolInit ==
    /\ sPc = "s_none" /\ sensor = "MONOCULAR"
    /\ detFixScale = FALSE /\ corrFixScale = FALSE /\ fixScale = FALSE
    /\ scaleArgs = {}
    /\ nFindLoop = 0 /\ ninitialCandidates = 0
    /\ candBad = [i \in CandidateIdx |-> FALSE]
    /\ candBoW = [i \in CandidateIdx |-> 0]
    /\ discarded = [i \in CandidateIdx |-> FALSE]
    /\ ncandidates = 0 /\ sIdx = 1
    /\ iterations = [i \in CandidateIdx |-> 0]
    /\ sFound = FALSE /\ sMatched = 0 /\ nInliers = 0
    /\ nDiscards = [i \in CandidateIdx |-> 0]

\* ---- the data of the Detector run twice (RerunSpec)
\* the id of the i-th keyframe of the stream
StreamKF(i) == i * MinLoopGap

\* the detector states a run can start from: an empty cache, or one group
\* seen in minConsistency - 1 consecutive calls
InitialCaches == {<<>>, <<<<MapKFs, minConsistency - 1>>>>}

\* what the database, the solver and the matcher answer in one Detect call:
\* the candidates of the query, whether the solver finds a similarity for the
\* first admitted candidate (refined to base matches), the map points that
\* are not bad among the matches of the matched keyframe and its neighbours
Answers ==
    [tmp : CandidateLists, sim3 : BOOLEAN,
     base : {MinMatches - Cardinality(MapPoints), MinMatches},
     seen : {{}, MapPoints}]

NoLoop == [matchedKF |-> 0, loopMapPoints |-> {}]

RerunInit ==
    /\ rPc = "r_idle" /\ rRun = 1 /\ rPos = 1 /\ rLen = 0
    /\ rLastLoopKFId = 0
    /\ rAnswers = <<>>
    /\ rCache0 = <<>> /\ rCache = <<>>
    /\ loopPointForKF = [p \in MapPoints |-> 0]
    /\ rResults = <<<<>>, <<>>>>
    /\ rCaches = <<<<>>, <<>>>>

CorrInit ==
    /\ cPc = "k_idle" /\ cCurrentKF = 0 /\ Scw = Sim3OfPose(0)
    /\ pose = [k \in CorrKFs |-> InitialPose(k)]
    /\ mapPointMatches = [k \in CorrKFs |-> {}]
    /\ isBad = {}
    /\ worldPos = [p \in MapPoints |-> InitialWorldPos(p)]
    /\ correctedByKF = [p \in MapPoints |-> 0]
    /\ correctedReference = [p \in MapPoints |-> 0]
    /\ covisible = [k \in CorrKFs |-> {}]
    /\ connectedKFs = {}
    /\ CorrectedSim3 = NoSim3 /\ NonCorrectedSim3 = NoSim3
    /\ toCorrect = {}
    /\ LoopConnections = NoConnections
    /\ nMapped = [p \in MapPoints |-> 0]

DetInit ==
    /\ dPc = "d_pop" /\ nDetected = 0 /\ dCurrentKF = 0 /\ dLastLoopKFId = 0
    /\ dFound = FALSE /\ outcome = "none"
    /\ prevConsistentGroups = <<>> /\ tmpCandidateKFs = <<>> /\ candidateKFs = <<>>
    /\ chain = NoChain /\ holds = NoHolds
    /\ matchedKF = {} /\ nmatches = 0

Init ==
    /\ lcPc = "start" /\ keyFrameQueue = <<>> /\ lastLoopKFId = 0
    /\ resetRequested = FALSE /\ finishRequested = FALSE /\ lcFinished = TRUE
    /\ currentKF = 0 /\ found = FALSE
    /\ running = FALSE /\ gbaFinished = TRUE /\ stop = FALSE /\ fullBAIdx = 0
    /\ thread = 0 /\ nTasks = 0
    /\ wPc = [w \in Workers |-> "w_none"]
    /\ wIdx = [w \in Workers |-> 0]
    /\ wLoopKF = [w \in Workers |-> 0]
    /\ lmStopRequested = FALSE /\ lmStopped = FALSE
    /\ lmFinishRequested = FALSE /\ lmFinished = FALSE
    /\ trPc = "idle" /\ activateMode = FALSE /\ deactivateMode = FALSE
    /\ nSysReq = 0
    /\ bigChangeId = 0 /\ keyframeDB = <<>>
    /\ held = [w \in Workers |-> {}]
    /\ acqs = {} /\ acc = {} /\ mut = {}
    /\ inserted = <<>> /\ handed = <<>> /\ nInserted = 0 /\ lastInsertedId = 0
    /\ resetsDone = 0 /\ aborted = {}
    /\ lastCorrected = 0 /\ notErase = {} /\ resetInsert = FALSE /\ popsSinceFinish = 0
    /\ DetInit
    /\ CorrInit
    /\ UpdInit
    /\ SolInit
    /\ RerunInit

\* ------------------------------------------- LoopClosingImpl: queue, main loop
\* InsertKeyFrame with push_front in place of push_back
InsertKeyFrame_PushFront(k) ==
    /\ LockFree("Queue")
    /\ keyFrameQueue' = IF k # 0 THEN <<k>> \o keyFrameQueue ELSE keyFrameQueue
    /\ acqs' = acqs \cup AcqLog(NoLocks, "InsertKeyFrame", <<"Queue">>)
    /\ acc' = acc \cup AccLog({"Queue"}, "InsertKeyFrame", {"queue"})

\* LoopClosingImpl::InsertKeyFrame(keyframe)
InsertKeyFrame(k) ==
    /\ LockFree("Queue")
    /\ keyFrameQueue' = IF k # 0 THEN Append(keyFrameQueue, k) ELSE keyFrameQueue
    /\ acqs' = acqs \cup AcqLog(NoLocks, "InsertKeyFrame", <<"Queue">>)
    /\ acc' = acc \cup AccLog({"Queue"}, "InsertKeyFrame", {"queue"})

\* Run(): finished_ = false, then the while (true) loop is entered
LCRunStart ==
    /\ lcPc = "start"
    /\ lcFinished' = FALSE
    /\ lcPc' = "loop"
    /\ UNCHANGED <<keyFrameQueue, lastLoopKFId, resetRequested, finishRequested,
                   currentKF, found>>
    /\ UNCHANGED <<gbaVars, lmVars, sysVars, mapVars, held, histVars>>
    /\ UNCHANGED <<lastCorrected, notErase, resetInsert, popsSinceFinish, detVars, corrVars, updVars, solVars, rerunVars>>

\* CheckNewKeyFrames(): the queue is read under the queue lock
LCCheckNewKeyFrames ==
    /\ lcPc = "loop"
    /\ LockFree("Queue")
    /\ lcPc' = IF keyFrameQueue # <<>> THEN "pop" ELSE "reset"
    /\ acqs' = acqs \cup AcqLog(NoLocks, "CheckNewKeyFrames", <<"Queue">>)
    /\ acc' = acc \cup AccLog({"Queue"}, "CheckNewKeyFrames", {"queue"})
    /\ UNCHANGED <<keyFrameQueue, lastLoopKFId, resetRequested, finishRequested, lcFinished,
                   currentKF, found>>
    /\ UNCHANGED <<gbaVars, lmVars, sysVars, mapVars, held>>
    /\ UNCHANGED <<mut, inserted, handed, nInserted, lastInsertedId, resetsDone, aborted>>
    /\ UNCHANGED <<lastCorrected, notErase, resetInsert, popsSinceFinish, detVars, corrVars, updVars, solVars, rerunVars>>

\* currentKF = keyFrameQueue_.front(); pop_front(); SetNotErase(), under the
\* queue lock
LCPopFront ==
    /\ lcPc = "pop"
    /\ LockFree("Queue")
    /\ currentKF' = Head(keyFrameQueue)
    /\ keyFrameQueue' = Tail(keyFrameQueue)
    /\ lcPc' = "detect"
    /\ notErase' = notErase \cup {Head(keyFrameQueue)}
    /\ popsSinceFinish' = IF finishRequested THEN popsSinceFinish + 1 ELSE popsSinceFinish
    /\ acqs' = acqs \cup AcqLog(NoLocks, "Run:pop", <<"Queue">>)
    /\ acc' = acc \cup AccLog({"Queue"}, "Run:pop", {"queue"})
    /\ UNCHANGED <<lastLoopKFId, resetRequested, finishRequested, lcFinished,
                   found>>
    /\ UNCHANGED <<gbaVars, lmVars, sysVars, mapVars, held>>
    /\ UNCHANGED <<mut, inserted, handed, nInserted, lastInsertedId, resetsDone, aborted>>
    /\ UNCHANGED <<lastCorrected, resetInsert, detVars, corrVars, updVars, solVars, rerunVars>>

\* the admission filter letting every keyframe newer than the last loop pass
PassesFilter_AnyLater(kf, lastLoop) == kf > lastLoop

\* Detect's admission filter letting every keyframe pass
PassesFilter_NoGap(kf, lastLoop) == kf >= lastLoop

\* LoopDetector::Detect's admission filter on (currentKF, lastLoopKFId): TRUE
\* when the keyframe may close a loop
PassesFilter(kf, lastLoop) == ~(kf < lastLoop + MinLoopGap)

\* found = detector_.Detect(currentKF, loop, lastLoopKFId_): lastLoopKFId_ is
\* read without a lock; behind the admission filter the outcome depends on
\* the database, the matcher and the solver, and is any of the two
LCDetect ==
    /\ lcPc = "detect"
    /\ \E r \in BOOLEAN :
          /\ r => (PassesFilter(currentKF, lastLoopKFId) /\ nTasks < MaxTasks)
          /\ found' = r
    /\ handed' = Append(handed, currentKF)
    /\ lcPc' = "dbadd"
    /\ acc' = acc \cup AccLog(NoLocks, "Run:Detect", {"lastLoopKFId"})
    /\ UNCHANGED <<keyFrameQueue, lastLoopKFId, resetRequested, finishRequested, lcFinished,
                   currentKF>>
    /\ UNCHANGED <<gbaVars, lmVars, sysVars, mapVars, held>>
    /\ UNCHANGED <<acqs, mut, inserted, nInserted, lastInsertedId, resetsDone, aborted>>
    /\ UNCHANGED <<lastCorrected, notErase, resetInsert, popsSinceFinish, detVars, corrVars, updVars, solVars, rerunVars>>

\* the database add moved into the else branch: a keyframe that closes a loop
\* is not added
LCAddToDB_OnlyIfNotFound ==
    /\ lcPc = "dbadd"
    /\ keyframeDB' = IF found THEN keyframeDB ELSE Append(keyframeDB, currentKF)
    /\ lcPc' = IF found THEN "c_reqstop" ELSE "seterase"
    /\ UNCHANGED <<keyFrameQueue, lastLoopKFId, resetRequested, finishRequested, lcFinished,
                   currentKF, found>>
    /\ UNCHANGED <<gbaVars, lmVars, sysVars, bigChangeId, held, histVars>>
    /\ UNCHANGED <<lastCorrected, notErase, resetInsert, popsSinceFinish, detVars, corrVars, updVars, solVars, rerunVars>>

\* keyframeDB_->add(currentKF), after Detect has returned; then the branch on
\* found
LCAddToDB ==
    /\ lcPc = "dbadd"
    /\ keyframeDB' = Append(keyframeDB, currentKF)
    /\ lcPc' = IF found THEN "c_reqstop" ELSE "seterase"
    /\ UNCHANGED <<keyFrameQueue, lastLoopKFId, resetRequested, finishRequested, lcFinished,
                   currentKF, found>>
    /\ UNCHANGED <<gbaVars, lmVars, sysVars, bigChangeId, held, histVars>>
    /\ UNCHANGED <<lastCorrected, notErase, resetInsert, popsSinceFinish, detVars, corrVars, updVars, solVars, rerunVars>>

\* else branch: currentKF->SetErase(); the iteration's locals go out of scope
LCSetErase ==
    /\ lcPc = "seterase"
    /\ lcPc' = "reset"
    /\ notErase' = notErase \ {currentKF}
    /\ currentKF' = 0 /\ found' = FALSE
    /\ UNCHANGED <<keyFrameQueue, lastLoopKFId, resetRequested, finishRequested, lcFinished>>
    /\ UNCHANGED <<gbaVars, lmVars, sysVars, mapVars, held, histVars>>
    /\ UNCHANGED <<lastCorrected, resetInsert, popsSinceFinish, detVars, corrVars, updVars, solVars, rerunVars>>

\* lastLoopKFId_ = currentKF->id, after Correct has returned (no lock); the
\* iteration's locals go out of scope
LCSetLastLoop ==
    /\ lcPc = "setlast"
    /\ lastLoopKFId' = currentKF
    /\ lcPc' = "reset"
    /\ currentKF' = 0 /\ found' = FALSE
    /\ acc' = acc \cup AccLog(NoLocks, "Run:lastLoop", {"lastLoopKFId"})
    /\ UNCHANGED <<keyFrameQueue, resetRequested, finishRequested, lcFinished>>
    /\ UNCHANGED <<gbaVars, lmVars, sysVars, mapVars, held>>
    /\ UNCHANGED <<acqs, mut, inserted, handed, nInserted, lastInsertedId, resetsDone, aborted>>
    /\ UNCHANGED <<lastCorrected, notErase, resetInsert, popsSinceFinish, detVars, corrVars, updVars, solVars, rerunVars>>

\* ResetIfRequested taking the queue lock inside the reset lock for the clear
LCResetIfRequested_QueueLock ==
    /\ lcPc = "reset"
    /\ LockFree("Reset")
    /\ IF resetRequested
       THEN /\ LockFree("Queue")
            /\ keyFrameQueue' = <<>>
            /\ lastLoopKFId' = 0
            /\ lastCorrected' = 0
            /\ resetRequested' = FALSE
            /\ resetsDone' = resetsDone + 1
            /\ acc' = acc \cup AccLog({"Reset", "Queue"}, "ResetIfRequested", {"queue", "lastLoopKFId"})
            /\ acqs' = acqs \cup AcqLog(NoLocks, "ResetIfRequested", <<"Reset", "Queue">>)
       ELSE /\ UNCHANGED <<keyFrameQueue, lastLoopKFId, resetRequested, resetsDone, acc,
                           lastCorrected>>
            /\ acqs' = acqs \cup AcqLog(NoLocks, "ResetIfRequested", <<"Reset">>)
    /\ lcPc' = "checkfinish"
    /\ UNCHANGED <<finishRequested, lcFinished, currentKF, found>>
    /\ UNCHANGED <<gbaVars, lmVars, sysVars, mapVars, held>>
    /\ UNCHANGED <<mut, inserted, handed, nInserted, lastInsertedId, aborted>>
    /\ UNCHANGED <<notErase, resetInsert, popsSinceFinish, detVars, corrVars, updVars, solVars, rerunVars>>

\* ResetIfRequested clearing the flag and the queue but not lastLoopKFId_
LCResetIfRequested_KeepLastLoop ==
    /\ lcPc = "reset"
    /\ LockFree("Reset")
    /\ IF resetRequested
       THEN /\ keyFrameQueue' = <<>>
            /\ lastCorrected' = 0
            /\ resetRequested' = FALSE
            /\ resetsDone' = resetsDone + 1
            /\ acc' = acc \cup AccLog({"Reset"}, "ResetIfRequested", {"queue"})
       ELSE UNCHANGED <<keyFrameQueue, resetRequested, resetsDone, acc, lastCorrected>>
    /\ acqs' = acqs \cup AcqLog(NoLocks, "ResetIfRequested", <<"Reset">>)
    /\ lcPc' = "checkfinish"
    /\ UNCHANGED <<lastLoopKFId, finishRequested, lcFinished, currentKF, found>>
    /\ UNCHANGED <<gbaVars, lmVars, sysVars, mapVars, held>>
    /\ UNCHANGED <<mut, inserted, handed, nInserted, lastInsertedId, aborted>>
    /\ UNCHANGED <<notErase, resetInsert, popsSinceFinish, detVars, corrVars, updVars, solVars, rerunVars>>

\* ResetIfRequested also aborting the global-BA task, as GlobalBA::Stop does
LCResetIfRequested_StopGBA ==
    /\ lcPc = "reset"
    /\ LockFree("Reset")
    /\ IF resetRequested
       THEN /\ keyFrameQueue' = <<>>
            /\ lastLoopKFId' = 0
            /\ lastCorrected' = 0
            /\ resetRequested' = FALSE
            /\ resetsDone' = resetsDone + 1
            /\ stop' = TRUE
            /\ acc' = acc \cup AccLog({"Reset"}, "ResetIfRequested", {"queue", "lastLoopKFId"})
       ELSE UNCHANGED <<keyFrameQueue, lastLoopKFId, resetRequested, resetsDone, acc,
                        lastCorrected, stop>>
    /\ acqs' = acqs \cup AcqLog(NoLocks, "ResetIfRequested", <<"Reset">>)
    /\ lcPc' = "checkfinish"
    /\ UNCHANGED <<finishRequested, lcFinished, currentKF, found>>
    /\ UNCHANGED <<running, gbaFinished, fullBAIdx, thread, nTasks, wPc, wIdx, wLoopKF>>
    /\ UNCHANGED <<lmVars, sysVars, mapVars, held>>
    /\ UNCHANGED <<mut, inserted, handed, nInserted, lastInsertedId, aborted>>
    /\ UNCHANGED <<notErase, resetInsert, popsSinceFinish, detVars, corrVars, updVars, solVars, rerunVars>>

\* ResetIfRequested(): under the reset lock alone, the queue is cleared and
\* lastLoopKFId_ is reset
LCResetIfRequested ==
    /\ lcPc = "reset"
    /\ LockFree("Reset")
    /\ IF resetRequested
       THEN /\ keyFrameQueue' = <<>>
            /\ lastLoopKFId' = 0
            /\ lastCorrected' = 0
            /\ resetRequested' = FALSE
            /\ resetsDone' = resetsDone + 1
            /\ acc' = acc \cup AccLog({"Reset"}, "ResetIfRequested", {"queue", "lastLoopKFId"})
       ELSE UNCHANGED <<keyFrameQueue, lastLoopKFId, resetRequested, resetsDone, acc,
                        lastCorrected>>
    /\ acqs' = acqs \cup AcqLog(NoLocks, "ResetIfRequested", <<"Reset">>)
    /\ lcPc' = "checkfinish"
    /\ UNCHANGED <<finishRequested, lcFinished, currentKF, found>>
    /\ UNCHANGED <<gbaVars, lmVars, sysVars, mapVars, held>>
    /\ UNCHANGED <<mut, inserted, handed, nInserted, lastInsertedId, aborted>>
    /\ UNCHANGED <<notErase, resetInsert, popsSinceFinish, detVars, corrVars, updVars, solVars, rerunVars>>

\* the finish check honoured only once the queue has been drained
LCCheckFinish_DrainFirst ==
    /\ lcPc = "checkfinish"
    /\ LockFree("Finish")
    /\ lcPc' = IF finishRequested /\ keyFrameQueue = <<>> THEN "setfinish" ELSE "loop"
    /\ acqs' = acqs \cup AcqLog(NoLocks, "CheckFinish", <<"Finish">>)
    /\ UNCHANGED <<keyFrameQueue, lastLoopKFId, resetRequested, finishRequested, lcFinished,
                   currentKF, found>>
    /\ UNCHANGED <<gbaVars, lmVars, sysVars, mapVars, held>>
    /\ UNCHANGED <<acc, mut, inserted, handed, nInserted, lastInsertedId, resetsDone, aborted>>
    /\ UNCHANGED <<ghostVars, detVars, corrVars, updVars, solVars, rerunVars>>

\* if (CheckFinish()) break; usleep(5000)
LCCheckFinish ==
    /\ lcPc = "checkfinish"
    /\ LockFree("Finish")
    /\ lcPc' = IF finishRequested THEN "setfinish" ELSE "loop"
    /\ acqs' = acqs \cup AcqLog(NoLocks, "CheckFinish", <<"Finish">>)
    /\ UNCHANGED <<keyFrameQueue, lastLoopKFId, resetRequested, finishRequested, lcFinished,
                   currentKF, found>>
    /\ UNCHANGED <<gbaVars, lmVars, sysVars, mapVars, held>>
    /\ UNCHANGED <<acc, mut, inserted, handed, nInserted, lastInsertedId, resetsDone, aborted>>
    /\ UNCHANGED <<lastCorrected, notErase, resetInsert, popsSinceFinish, detVars, corrVars, updVars, solVars, rerunVars>>

\* SetFinish()
LCSetFinish ==
    /\ lcPc = "setfinish"
    /\ LockFree("Finish")
    /\ lcFinished' = TRUE
    /\ lcPc' = "exited"
    /\ acqs' = acqs \cup AcqLog(NoLocks, "SetFinish", <<"Finish">>)
    /\ UNCHANGED <<keyFrameQueue, lastLoopKFId, resetRequested, finishRequested,
                   currentKF, found>>
    /\ UNCHANGED <<gbaVars, lmVars, sysVars, mapVars, held>>
    /\ UNCHANGED <<acc, mut, inserted, handed, nInserted, lastInsertedId, resetsDone, aborted>>
    /\ popsSinceFinish' = 0
    /\ UNCHANGED <<lastCorrected, notErase, resetInsert, detVars, corrVars, updVars, solVars, rerunVars>>

MainLoop ==
    \/ LCRunStart \/ LCCheckNewKeyFrames \/ LCPopFront \/ LCDetect \/ LCAddToDB
    \/ LCSetErase \/ LCSetLastLoop \/ LCResetIfRequested \/ LCCheckFinish \/ LCSetFinish

\* ---------------------------------------------------------------- GlobalBA
\* GlobalBA::Running(): running_ is read under the global-BA lock
Running(site) ==
    /\ LockFree("GBA")
    /\ acqs' = acqs \cup AcqLog(NoLocks, site, <<"GBA">>)
    /\ acc' = acc \cup AccLog({"GBA"}, site, {"running"})

\* GlobalBA::Stop(): under the global-BA lock, stop_ = true; fullBAIdx_++;
\* thread_.Detach(). Every worker that exists is one "spawned before Stop()".
Stop ==
    /\ LockFree("GBA")
    /\ stop' = TRUE
    /\ fullBAIdx' = fullBAIdx + 1
    /\ thread' = 0
    /\ aborted' = aborted \cup {w \in Workers : wPc[w] \notin {"w_none", "w_done"}}
    /\ acqs' = acqs \cup AcqLog(NoLocks, "Stop", <<"GBA">>)
    /\ acc' = acc \cup AccLog({"GBA"}, "Stop", {"stop", "fullBAIdx"})

\* ------------------------------------------------------------ LoopCorrector
\* Correct: localMapper_->RequestStop()
CorrectRequestStop ==
    /\ lcPc = "c_reqstop"
    /\ RequestStop
    /\ lcPc' = "c_running"
    /\ UNCHANGED <<keyFrameQueue, lastLoopKFId, resetRequested, finishRequested, lcFinished,
                   currentKF, found>>
    /\ UNCHANGED <<lmStopped, lmFinishRequested, lmFinished>>
    /\ UNCHANGED <<gbaVars, sysVars, mapVars, held, histVars>>
    /\ UNCHANGED <<lastCorrected, notErase, resetInsert, popsSinceFinish, detVars, corrVars, updVars, solVars, rerunVars>>

\* Correct: if (GBA_->Running())
CorrectCheckRunning ==
    /\ lcPc = "c_running"
    /\ Running("Running")
    /\ lcPc' = IF running THEN "c_stop" ELSE "c_wait"
    /\ UNCHANGED <<keyFrameQueue, lastLoopKFId, resetRequested, finishRequested, lcFinished,
                   currentKF, found>>
    /\ UNCHANGED <<gbaVars, lmVars, sysVars, mapVars, held>>
    /\ UNCHANGED <<mut, inserted, handed, nInserted, lastInsertedId, resetsDone, aborted>>
    /\ UNCHANGED <<lastCorrected, notErase, resetInsert, popsSinceFinish, detVars, corrVars, updVars, solVars, rerunVars>>

\* Correct: GBA_->Stop()
CorrectStop ==
    /\ lcPc = "c_stop"
    /\ Stop
    /\ lcPc' = "c_wait"
    /\ UNCHANGED <<keyFrameQueue, lastLoopKFId, resetRequested, finishRequested, lcFinished,
                   currentKF, found>>
    /\ UNCHANGED <<running, gbaFinished, nTasks, wPc, wIdx, wLoopKF>>
    /\ UNCHANGED <<lmVars, sysVars, mapVars, held>>
    /\ UNCHANGED <<mut, inserted, handed, nInserted, lastInsertedId, resetsDone>>
    /\ UNCHANGED <<lastCorrected, notErase, resetInsert, popsSinceFinish, detVars, corrVars, updVars, solVars, rerunVars>>

\* Correct: while (!localMapper_->isStopped()) usleep(1000);
CorrectWaitStopped ==
    /\ lcPc = "c_wait"
    /\ lmStopped
    /\ lcPc' = "c_conn0"
    /\ UNCHANGED <<keyFrameQueue, lastLoopKFId, resetRequested, finishRequested, lcFinished,
                   currentKF, found>>
    /\ UNCHANGED <<gbaVars, lmVars, sysVars, mapVars, held, histVars>>
    /\ UNCHANGED <<lastCorrected, notErase, resetInsert, popsSinceFinish, detVars, corrVars, updVars, solVars, rerunVars>>

\* Correct: currentKF->UpdateConnections(), before the map lock is taken
CorrectUpdateCurrent ==
    /\ lcPc = "c_conn0"
    /\ mut' = mut \cup MutLog(NoLocks, "Correct:UpdateCurrent", {"conn"})
    /\ lcPc' = "c_propagate"
    /\ UNCHANGED <<keyFrameQueue, lastLoopKFId, resetRequested, finishRequested, lcFinished,
                   currentKF, found>>
    /\ UNCHANGED <<gbaVars, lmVars, sysVars, mapVars, held>>
    /\ UNCHANGED <<acqs, acc, inserted, handed, nInserted, lastInsertedId, resetsDone, aborted>>
    /\ UNCHANGED <<lastCorrected, notErase, resetInsert, popsSinceFinish, detVars, corrVars, updVars, solVars, rerunVars>>

\* Correct: the block under LOCK_MUTEX_MAP_UPDATE: map points of the corrected
\* keyframes moved (SetWorldPos), poses written (SetPose), connections
\* refreshed, matched points fused (Replace / AddMapPoint)
CorrectPropagate ==
    /\ lcPc = "c_propagate"
    /\ LockFree("Map")
    /\ acqs' = acqs \cup AcqLog(NoLocks, "Correct:Propagate", <<"Map">>)
    /\ mut' = mut \cup MutLog({"Map"}, "Correct:Propagate", {"point", "pose", "conn", "replace"})
    /\ lcPc' = "c_fuse"
    /\ UNCHANGED <<keyFrameQueue, lastLoopKFId, resetRequested, finishRequested, lcFinished,
                   currentKF, found>>
    /\ UNCHANGED <<gbaVars, lmVars, sysVars, mapVars, held>>
    /\ UNCHANGED <<acc, inserted, handed, nInserted, lastInsertedId, resetsDone, aborted>>
    /\ UNCHANGED <<lastCorrected, notErase, resetInsert, popsSinceFinish, detVars, corrVars, updVars, solVars, rerunVars>>

\* the fuse loop replacing the duplicates without re-acquiring the map lock
CorrectFuse_NoLock ==
    /\ lcPc = "c_fuse"
    /\ mut' = mut \cup MutLog(NoLocks, "Correct:Fuse", {"replace"})
    /\ lcPc' = "c_loopconn"
    /\ UNCHANGED <<keyFrameQueue, lastLoopKFId, resetRequested, finishRequested, lcFinished,
                   currentKF, found>>
    /\ UNCHANGED <<gbaVars, lmVars, sysVars, mapVars, held>>
    /\ UNCHANGED <<acqs, acc, inserted, handed, nInserted, lastInsertedId, resetsDone, aborted>>
    /\ UNCHANGED <<lastCorrected, notErase, resetInsert, popsSinceFinish, detVars, corrVars, updVars, solVars, rerunVars>>

\* Correct: for each corrected keyframe, matcher.Fuse, then under
\* LOCK_MUTEX_MAP_UPDATE the duplicates are replaced
CorrectFuse ==
    /\ lcPc = "c_fuse"
    /\ LockFree("Map")
    /\ acqs' = acqs \cup AcqLog(NoLocks, "Correct:Fuse", <<"Map">>)
    /\ mut' = mut \cup MutLog({"Map"}, "Correct:Fuse", {"replace"})
    /\ lcPc' = "c_loopconn"
    /\ UNCHANGED <<keyFrameQueue, lastLoopKFId, resetRequested, finishRequested, lcFinished,
                   currentKF, found>>
    /\ UNCHANGED <<gbaVars, lmVars, sysVars, mapVars, held>>
    /\ UNCHANGED <<acc, inserted, handed, nInserted, lastInsertedId, resetsDone, aborted>>
    /\ UNCHANGED <<lastCorrected, notErase, resetInsert, popsSinceFinish, detVars, corrVars, updVars, solVars, rerunVars>>

\* Correct: connectedKF->UpdateConnections() for every corrected keyframe and
\* the new loop connections, with no lock
CorrectLoopConnections ==
    /\ lcPc = "c_loopconn"
    /\ mut' = mut \cup MutLog(NoLocks, "Correct:LoopConnections", {"conn"})
    /\ lcPc' = "c_optimize"
    /\ UNCHANGED <<keyFrameQueue, lastLoopKFId, resetRequested, finishRequested, lcFinished,
                   currentKF, found>>
    /\ UNCHANGED <<gbaVars, lmVars, sysVars, mapVars, held>>
    /\ UNCHANGED <<acqs, acc, inserted, handed, nInserted, lastInsertedId, resetsDone, aborted>>
    /\ UNCHANGED <<lastCorrected, notErase, resetInsert, popsSinceFinish, detVars, corrVars, updVars, solVars, rerunVars>>

\* Correct: Optimizer::OptimizeEssentialGraph(...)
CorrectOptimize ==
    /\ lcPc = "c_optimize"
    /\ lcPc' = "c_bigchange"
    /\ UNCHANGED <<keyFrameQueue, lastLoopKFId, resetRequested, finishRequested, lcFinished,
                   currentKF, found>>
    /\ UNCHANGED <<gbaVars, lmVars, sysVars, mapVars, held, histVars>>
    /\ UNCHANGED <<lastCorrected, notErase, resetInsert, popsSinceFinish, detVars, corrVars, updVars, solVars, rerunVars>>

\* the counter bumped by the first Correct only
CorrectBigChange_OnlyFirst ==
    /\ lcPc = "c_bigchange"
    /\ bigChangeId' = IF nTasks = 0 THEN bigChangeId + 1 ELSE bigChangeId
    /\ lcPc' = "c_loopedge"
    /\ UNCHANGED <<keyFrameQueue, lastLoopKFId, resetRequested, finishRequested, lcFinished,
                   currentKF, found>>
    /\ UNCHANGED <<gbaVars, lmVars, sysVars, keyframeDB, held, histVars>>
    /\ UNCHANGED <<lastCorrected, notErase, resetInsert, popsSinceFinish, detVars, corrVars, updVars, solVars, rerunVars>>

\* Correct: map_->InformNewBigChange()
CorrectBigChange ==
    /\ lcPc = "c_bigchange"
    /\ bigChangeId' = bigChangeId + 1
    /\ lcPc' = "c_loopedge"
    /\ UNCHANGED <<keyFrameQueue, lastLoopKFId, resetRequested, finishRequested, lcFinished,
                   currentKF, found>>
    /\ UNCHANGED <<gbaVars, lmVars, sysVars, keyframeDB, held, histVars>>
    /\ UNCHANGED <<lastCorrected, notErase, resetInsert, popsSinceFinish, detVars, corrVars, updVars, solVars, rerunVars>>

\* the loop edges added, with the local mapper released at once
CorrectLoopEdge_Release ==
    /\ lcPc = "c_loopedge"
    /\ Release
    /\ lcPc' = "c_run1"
    /\ UNCHANGED <<keyFrameQueue, lastLoopKFId, resetRequested, finishRequested, lcFinished,
                   currentKF, found>>
    /\ UNCHANGED <<lmFinishRequested, lmFinished>>
    /\ UNCHANGED <<gbaVars, sysVars, mapVars, held, histVars>>
    /\ UNCHANGED <<lastCorrected, notErase, resetInsert, popsSinceFinish, detVars, corrVars, updVars, solVars, rerunVars>>

\* Correct: matchedKF->AddLoopEdge(currentKF); currentKF->AddLoopEdge(matchedKF)
CorrectLoopEdge ==
    /\ lcPc = "c_loopedge"
    /\ lcPc' = "c_run1"
    /\ UNCHANGED <<keyFrameQueue, lastLoopKFId, resetRequested, finishRequested, lcFinished,
                   currentKF, found>>
    /\ UNCHANGED <<gbaVars, lmVars, sysVars, mapVars, held, histVars>>
    /\ UNCHANGED <<lastCorrected, notErase, resetInsert, popsSinceFinish, detVars, corrVars, updVars, solVars, rerunVars>>

\* GlobalBA::Run: running_ = true (no lock)
RunSetRunning ==
    /\ lcPc = "c_run1"
    /\ running' = TRUE
    /\ acc' = acc \cup AccLog(NoLocks, "Run", {"running"})
    /\ lcPc' = "c_run2"
    /\ UNCHANGED <<keyFrameQueue, lastLoopKFId, resetRequested, finishRequested, lcFinished,
                   currentKF, found>>
    /\ UNCHANGED <<gbaFinished, stop, fullBAIdx, thread, nTasks, wPc, wIdx, wLoopKF>>
    /\ UNCHANGED <<lmVars, sysVars, mapVars, held>>
    /\ UNCHANGED <<acqs, mut, inserted, handed, nInserted, lastInsertedId, resetsDone, aborted>>
    /\ UNCHANGED <<lastCorrected, notErase, resetInsert, popsSinceFinish, detVars, corrVars, updVars, solVars, rerunVars>>

\* GlobalBA::Run: finished_ = false (no lock)
RunSetFinished ==
    /\ lcPc = "c_run2"
    /\ gbaFinished' = FALSE
    /\ acc' = acc \cup AccLog(NoLocks, "Run", {"finished"})
    /\ lcPc' = "c_run3"
    /\ UNCHANGED <<keyFrameQueue, lastLoopKFId, resetRequested, finishRequested, lcFinished,
                   currentKF, found>>
    /\ UNCHANGED <<running, stop, fullBAIdx, thread, nTasks, wPc, wIdx, wLoopKF>>
    /\ UNCHANGED <<lmVars, sysVars, mapVars, held>>
    /\ UNCHANGED <<acqs, mut, inserted, handed, nInserted, lastInsertedId, resetsDone, aborted>>
    /\ UNCHANGED <<lastCorrected, notErase, resetInsert, popsSinceFinish, detVars, corrVars, updVars, solVars, rerunVars>>

\* GlobalBA::Run: stop_ = false (no lock)
RunClearStop ==
    /\ lcPc = "c_run3"
    /\ stop' = FALSE
    /\ acc' = acc \cup AccLog(NoLocks, "Run", {"stop"})
    /\ lcPc' = "c_spawn"
    /\ UNCHANGED <<keyFrameQueue, lastLoopKFId, resetRequested, finishRequested, lcFinished,
                   currentKF, found>>
    /\ UNCHANGED <<running, gbaFinished, fullBAIdx, thread, nTasks, wPc, wIdx, wLoopKF>>
    /\ UNCHANGED <<lmVars, sysVars, mapVars, held>>
    /\ UNCHANGED <<acqs, mut, inserted, handed, nInserted, lastInsertedId, resetsDone, aborted>>
    /\ UNCHANGED <<lastCorrected, notErase, resetInsert, popsSinceFinish, detVars, corrVars, updVars, solVars, rerunVars>>

\* GlobalBA::Run: thread_.Reset(&GlobalBA::_Run, this, loopKFId): the thread
\* held so far is detached and a new one is started
RunSpawn ==
    /\ lcPc = "c_spawn"
    /\ nTasks < MaxTasks
    /\ nTasks' = nTasks + 1
    /\ thread' = nTasks + 1
    /\ wPc' = [wPc EXCEPT ![nTasks + 1] = "w_start"]
    /\ wLoopKF' = [wLoopKF EXCEPT ![nTasks + 1] = currentKF]
    /\ lcPc' = "c_release"
    /\ UNCHANGED <<keyFrameQueue, lastLoopKFId, resetRequested, finishRequested, lcFinished,
                   currentKF, found>>
    /\ UNCHANGED <<running, gbaFinished, stop, fullBAIdx, wIdx>>
    /\ UNCHANGED <<lmVars, sysVars, mapVars, held, histVars>>
    /\ UNCHANGED <<lastCorrected, notErase, resetInsert, popsSinceFinish, detVars, corrVars, updVars, solVars, rerunVars>>

\* Correct: localMapper_->Release()
CorrectRelease ==
    /\ lcPc = "c_release"
    /\ Release
    /\ lastCorrected' = currentKF
    /\ lcPc' = "setlast"
    /\ UNCHANGED <<keyFrameQueue, lastLoopKFId, resetRequested, finishRequested, lcFinished,
                   currentKF, found>>
    /\ UNCHANGED <<lmFinishRequested, lmFinished>>
    /\ UNCHANGED <<gbaVars, sysVars, mapVars, held, histVars>>
    /\ UNCHANGED <<notErase, resetInsert, popsSinceFinish, detVars, corrVars, updVars, solVars, rerunVars>>

Correct ==
    \/ CorrectRequestStop \/ CorrectCheckRunning \/ CorrectStop \/ CorrectWaitStopped
    \/ CorrectUpdateCurrent \/ CorrectPropagate \/ CorrectFuse \/ CorrectLoopConnections
    \/ CorrectOptimize \/ CorrectBigChange \/ CorrectLoopEdge
    \/ RunSetRunning \/ RunSetFinished \/ RunClearStop \/ RunSpawn \/ CorrectRelease

\* ------------------------------------------------------- GlobalBA::_Run(w)
\* _Run: const int idx = fullBAIdx_, read by the new thread with no lock
WorkerCaptureIdx(w) ==
    /\ wPc[w] = "w_start"
    /\ wIdx' = [wIdx EXCEPT ![w] = fullBAIdx]
    /\ wPc' = [wPc EXCEPT ![w] = "w_ba"]
    /\ acc' = acc \cup AccLog(held[w], "_Run:idx", {"fullBAIdx"})
    /\ UNCHANGED <<running, gbaFinished, stop, fullBAIdx, thread, nTasks, wLoopKF>>
    /\ UNCHANGED <<lcVars, lmVars, sysVars, mapVars, held>>
    /\ UNCHANGED <<acqs, mut, inserted, handed, nInserted, lastInsertedId, resetsDone, aborted>>
    /\ UNCHANGED <<lastCorrected, notErase, resetInsert, popsSinceFinish, detVars, corrVars, updVars, solVars, rerunVars>>

\* the accesses of _Run between its start and the end of its locked section:
\* Optimizer::GlobalBundleAdjustemnt polls stop_ through &stop_ with no lock;
\* under LOCK_MUTEX_GLOBAL_BA the state vs is read or written
WorkerAcc(w, vs) ==
    AccLog(held[w], "_Run:BA", {"stop"}) \cup AccLog(held[w] \cup {"GBA"}, "_Run:locked", vs)

\* _Run: Optimizer::GlobalBundleAdjustemnt(map_, 10, &stop_, loopKFId, false)
\* returns; LOCK_MUTEX_GLOBAL_BA(); if (idx != fullBAIdx_) return;
\* if (!stop_) { localMapper_->RequestStop(); ... } finished_ = true; running_ = false
WorkerLock(w) ==
    /\ wPc[w] = "w_ba"
    /\ LockFree("GBA")
    /\ acqs' = acqs \cup AcqLog(held[w], "_Run:GBA", <<"GBA">>)
    /\ IF wIdx[w] # fullBAIdx
       THEN /\ wPc' = [wPc EXCEPT ![w] = "w_done"]
            /\ acc' = acc \cup WorkerAcc(w, {"fullBAIdx"})
            /\ UNCHANGED <<running, gbaFinished, held, lmStopRequested>>
       ELSE IF stop
       THEN /\ wPc' = [wPc EXCEPT ![w] = "w_done"]
            /\ gbaFinished' = TRUE
            /\ running' = FALSE
            /\ acc' = acc \cup WorkerAcc(w, {"fullBAIdx", "stop", "finished", "running"})
            /\ UNCHANGED <<held, lmStopRequested>>
       ELSE /\ wPc' = [wPc EXCEPT ![w] = "w_wait"]
            /\ held' = [held EXCEPT ![w] = {"GBA"}]
            /\ RequestStop
            /\ acc' = acc \cup WorkerAcc(w, {"fullBAIdx", "stop"})
            /\ UNCHANGED <<running, gbaFinished>>
    /\ UNCHANGED <<stop, fullBAIdx, thread, nTasks, wIdx, wLoopKF>>
    /\ UNCHANGED <<lmStopped, lmFinishRequested, lmFinished>>
    /\ UNCHANGED <<lcVars, sysVars, mapVars>>
    /\ UNCHANGED <<mut, inserted, handed, nInserted, lastInsertedId, resetsDone, aborted>>
    /\ UNCHANGED <<lastCorrected, notErase, resetInsert, popsSinceFinish, detVars, corrVars, updVars, solVars, rerunVars>>

\* _Run: while (!localMapper_->isStopped() && !localMapper_->isFinished()) usleep(1000);
WorkerWaitStopped(w) ==
    /\ wPc[w] = "w_wait"
    /\ lmStopped \/ lmFinished
    /\ wPc' = [wPc EXCEPT ![w] = "w_map"]
    /\ UNCHANGED <<running, gbaFinished, stop, fullBAIdx, thread, nTasks, wIdx, wLoopKF>>
    /\ UNCHANGED <<lcVars, lmVars, sysVars, mapVars, held, histVars>>
    /\ UNCHANGED <<lastCorrected, notErase, resetInsert, popsSinceFinish, detVars, corrVars, updVars, solVars, rerunVars>>

\* _Run: LOCK_MUTEX_MAP_UPDATE(), inside the global-BA lock; keyframe poses
\* (SetPose) and map point positions (SetWorldPos) are rewritten;
\* map_->InformNewBigChange()
WorkerUpdateMap(w) ==
    /\ wPc[w] = "w_map"
    /\ LockFree("Map")
    /\ acqs' = acqs \cup AcqLog(held[w], "_Run:Map", <<"Map">>)
    /\ held' = [held EXCEPT ![w] = held[w] \cup {"Map"}]
    /\ mut' = mut \cup MutLog(held[w] \cup {"Map"}, "_Run:Update", {"pose", "point"})
    /\ bigChangeId' = bigChangeId + 1
    /\ wPc' = [wPc EXCEPT ![w] = "w_release"]
    /\ UNCHANGED <<running, gbaFinished, stop, fullBAIdx, thread, nTasks, wIdx, wLoopKF>>
    /\ UNCHANGED <<lcVars, lmVars, sysVars, keyframeDB>>
    /\ UNCHANGED <<acc, inserted, handed, nInserted, lastInsertedId, resetsDone, aborted>>
    /\ UNCHANGED <<lastCorrected, notErase, resetInsert, popsSinceFinish, detVars, corrVars, updVars, solVars, rerunVars>>

\* _Run: localMapper_->Release(); the map lock is dropped at the end of the
\* if block; finished_ = true; running_ = false; the global-BA lock is dropped
WorkerRelease(w) ==
    /\ wPc[w] = "w_release"
    /\ Release
    /\ gbaFinished' = TRUE
    /\ running' = FALSE
    /\ held' = [held EXCEPT ![w] = {}]
    /\ acc' = acc \cup AccLog(held[w], "_Run:locked", {"finished", "running"})
    /\ wPc' = [wPc EXCEPT ![w] = "w_done"]
    /\ UNCHANGED <<stop, fullBAIdx, thread, nTasks, wIdx, wLoopKF>>
    /\ UNCHANGED <<lmFinishRequested, lmFinished>>
    /\ UNCHANGED <<lcVars, sysVars, mapVars>>
    /\ UNCHANGED <<acqs, mut, inserted, handed, nInserted, lastInsertedId, resetsDone, aborted>>
    /\ UNCHANGED <<lastCorrected, notErase, resetInsert, popsSinceFinish, detVars, corrVars, updVars, solVars, rerunVars>>

Worker(w) ==
    \/ WorkerCaptureIdx(w) \/ WorkerLock(w)
    \/ WorkerWaitStopped(w) \/ WorkerUpdateMap(w) \/ WorkerRelease(w)

\* ------------------------------------------------------ local mapper thread
\* ids the next keyframe may carry: 0 for the first one, then increasing
NextIds == IF nInserted = 0 THEN {0} ELSE {lastInsertedId + d : d \in IdGaps}

\* the local mapper hands its next keyframe to the loop closer
LMInsertKeyFrame ==
    /\ ~lmStopped /\ ~lmFinished
    /\ nInserted < MaxKF
    /\ \E k \in NextIds :
          /\ InsertKeyFrame(k)
          /\ inserted' = IF k # 0 THEN Append(inserted, k) ELSE inserted
          /\ lastInsertedId' = k
    /\ nInserted' = nInserted + 1
    /\ resetInsert' = (resetInsert \/ trPc = "reset_wait")
    /\ UNCHANGED <<lcPc, lastLoopKFId, resetRequested, finishRequested, lcFinished,
                   currentKF, found>>
    /\ UNCHANGED <<gbaVars, lmVars, sysVars, mapVars, held>>
    /\ UNCHANGED <<mut, handed, resetsDone, aborted>>
    /\ UNCHANGED <<lastCorrected, notErase, popsSinceFinish, detVars, corrVars, updVars, solVars, rerunVars>>

\* the local mapper's main loop honours a pending stop request
LMStop ==
    /\ lmStopRequested /\ ~lmStopped /\ ~lmFinished
    /\ lmStopped' = TRUE
    /\ UNCHANGED <<lmStopRequested, lmFinishRequested, lmFinished>>
    /\ UNCHANGED <<lcVars, gbaVars, sysVars, mapVars, held, histVars>>
    /\ UNCHANGED <<lastCorrected, notErase, resetInsert, popsSinceFinish, detVars, corrVars, updVars, solVars, rerunVars>>

\* the local mapper leaves its main loop on a finish request: it reports
\* finished and stopped from then on
LMFinish ==
    /\ lmFinishRequested /\ ~lmFinished
    /\ lmFinished' = TRUE
    /\ lmStopped' = TRUE
    /\ UNCHANGED <<lmStopRequested, lmFinishRequested>>
    /\ UNCHANGED <<lcVars, gbaVars, sysVars, mapVars, held, histVars>>
    /\ UNCHANGED <<lastCorrected, notErase, resetInsert, popsSinceFinish, detVars, corrVars, updVars, solVars, rerunVars>>

LocalMapper == LMInsertKeyFrame \/ LMStop \/ LMFinish

\* ------------------------------------------------- System: tracking thread
\* System::ActivateLocalizationMode / DeactivateLocalizationMode: the flag is
\* set under the mode lock, which ModeManager::Update holds while it waits
SysRequestMode ==
    /\ trPc = "idle"
    /\ nSysReq < MaxSysReq
    /\ nSysReq' = nSysReq + 1
    /\ \/ activateMode' = TRUE /\ UNCHANGED deactivateMode
       \/ deactivateMode' = TRUE /\ UNCHANGED activateMode
    /\ UNCHANGED trPc
    /\ UNCHANGED <<lcVars, gbaVars, lmVars, mapVars, held, histVars>>
    /\ UNCHANGED <<lastCorrected, notErase, resetInsert, popsSinceFinish, detVars, corrVars, updVars, solVars, rerunVars>>

\* ModeManager::Update with mbActivateLocalizationMode set: RequestStop, then
\* the wait loop
ModeUpdateActivate ==
    /\ trPc = "idle"
    /\ activateMode
    /\ RequestStop
    /\ trPc' = "m_wait"
    /\ UNCHANGED <<activateMode, deactivateMode, nSysReq>>
    /\ UNCHANGED <<lmStopped, lmFinishRequested, lmFinished>>
    /\ UNCHANGED <<lcVars, gbaVars, mapVars, held, histVars>>
    /\ UNCHANGED <<lastCorrected, notErase, resetInsert, popsSinceFinish, detVars, corrVars, updVars, solVars, rerunVars>>

\* ModeManager::Update: while (!isStopped()) usleep(1000); the flag is cleared
ModeUpdateWait ==
    /\ trPc = "m_wait"
    /\ lmStopped
    /\ activateMode' = FALSE
    /\ trPc' = "m_deact"
    /\ UNCHANGED <<deactivateMode, nSysReq>>
    /\ UNCHANGED <<lcVars, gbaVars, lmVars, mapVars, held, histVars>>
    /\ UNCHANGED <<lastCorrected, notErase, resetInsert, popsSinceFinish, detVars, corrVars, updVars, solVars, rerunVars>>

\* ModeManager::Update, second if: with mbDeactivateLocalizationMode set the
\* local mapper is released
ModeUpdateDeactivate ==
    /\ \/ trPc = "m_deact"
       \/ trPc = "idle" /\ ~activateMode /\ deactivateMode
    /\ IF deactivateMode
       THEN Release /\ deactivateMode' = FALSE
       ELSE UNCHANGED <<lmStopped, lmStopRequested, deactivateMode>>
    /\ trPc' = "idle"
    /\ UNCHANGED <<activateMode, nSysReq>>
    /\ UNCHANGED <<lmFinishRequested, lmFinished>>
    /\ UNCHANGED <<lcVars, gbaVars, mapVars, held, histVars>>
    /\ UNCHANGED <<lastCorrected, notErase, resetInsert, popsSinceFinish, detVars, corrVars, updVars, solVars, rerunVars>>

\* LoopClosingImpl::RequestReset, first block: the flag is set under the reset
\* lock
RequestReset ==
    /\ trPc = "idle"
    /\ nSysReq < MaxSysReq
    /\ LockFree("Reset")
    /\ resetRequested' = TRUE
    /\ resetInsert' = FALSE
    /\ nSysReq' = nSysReq + 1
    /\ trPc' = "reset_wait"
    /\ acqs' = acqs \cup AcqLog(NoLocks, "RequestReset", <<"Reset">>)
    /\ UNCHANGED <<lcPc, keyFrameQueue, lastLoopKFId, finishRequested, lcFinished,
                   currentKF, found>>
    /\ UNCHANGED <<activateMode, deactivateMode>>
    /\ UNCHANGED <<gbaVars, lmVars, mapVars, held>>
    /\ UNCHANGED <<acc, mut, inserted, handed, nInserted, lastInsertedId, resetsDone, aborted>>
    /\ UNCHANGED <<lastCorrected, notErase, popsSinceFinish, detVars, corrVars, updVars, solVars, rerunVars>>

\* LoopClosingImpl::RequestReset, the wait loop: it returns once the flag is
\* found cleared
RequestResetWait ==
    /\ trPc = "reset_wait"
    /\ LockFree("Reset")
    /\ ~resetRequested
    /\ trPc' = "idle"
    /\ acqs' = acqs \cup AcqLog(NoLocks, "RequestReset", <<"Reset">>)
    /\ UNCHANGED <<activateMode, deactivateMode, nSysReq>>
    /\ UNCHANGED <<lcVars, gbaVars, lmVars, mapVars, held>>
    /\ UNCHANGED <<acc, mut, inserted, handed, nInserted, lastInsertedId, resetsDone, aborted>>
    /\ resetInsert' = FALSE
    /\ UNCHANGED <<lastCorrected, notErase, popsSinceFinish, detVars, corrVars, updVars, solVars, rerunVars>>

\* System::Shutdown: mpLocalMapper->RequestFinish(); mpLoopCloser->RequestFinish()
Shutdown ==
    /\ trPc = "idle"
    /\ LockFree("Finish")
    /\ lmFinishRequested' = TRUE
    /\ finishRequested' = TRUE
    /\ trPc' = "shutdown"
    /\ acqs' = acqs \cup AcqLog(NoLocks, "RequestFinish", <<"Finish">>)
    /\ UNCHANGED <<lcPc, keyFrameQueue, lastLoopKFId, resetRequested, lcFinished,
                   currentKF, found>>
    /\ UNCHANGED <<activateMode, deactivateMode, nSysReq>>
    /\ UNCHANGED <<lmStopRequested, lmStopped, lmFinished>>
    /\ UNCHANGED <<gbaVars, mapVars, held>>
    /\ UNCHANGED <<acc, mut, inserted, handed, nInserted, lastInsertedId, resetsDone, aborted>>
    /\ UNCHANGED <<lastCorrected, notErase, resetInsert, popsSinceFinish, detVars, corrVars, updVars, solVars, rerunVars>>

\* System::Shutdown, the wait loop: !mpLocalMapper->isFinished() ||
\* !mpLoopCloser->isFinished(), read under the finish lock
ShutdownCheckFinished ==
    /\ trPc = "shutdown"
    /\ LockFree("Finish")
    /\ lmFinished /\ lcFinished
    /\ trPc' = "sd_gba"
    /\ acqs' = acqs \cup AcqLog(NoLocks, "isFinished", <<"Finish">>)
    /\ UNCHANGED <<activateMode, deactivateMode, nSysReq>>
    /\ UNCHANGED <<lcVars, gbaVars, lmVars, mapVars, held>>
    /\ UNCHANGED <<acc, mut, inserted, handed, nInserted, lastInsertedId, resetsDone, aborted>>
    /\ UNCHANGED <<ghostVars, detVars, corrVars, updVars, solVars, rerunVars>>

\* System::Shutdown, the wait loop: || mpLoopCloser->isRunningGBA(); the loop
\* goes round while a global BA is reported running
ShutdownCheckGBA ==
    /\ trPc = "sd_gba"
    /\ Running("isRunningGBA")
    /\ trPc' = IF running THEN "shutdown" ELSE "sd_join"
    /\ UNCHANGED <<activateMode, deactivateMode, nSysReq>>
    /\ UNCHANGED <<lcVars, gbaVars, lmVars, mapVars, held>>
    /\ UNCHANGED <<mut, inserted, handed, nInserted, lastInsertedId, resetsDone, aborted>>
    /\ UNCHANGED <<ghostVars, detVars, corrVars, updVars, solVars, rerunVars>>

\* System::Shutdown: for (auto& t : threads_) if (t.joinable()) t.join(): the
\* threads of LocalMapping::Run and LoopClosing::Run have returned; the
\* global-BA workers are not among threads_
ShutdownJoin ==
    /\ trPc = "sd_join"
    /\ lcPc = "exited" /\ lmFinished
    /\ trPc' = "down"
    /\ UNCHANGED <<activateMode, deactivateMode, nSysReq>>
    /\ UNCHANGED <<lcVars, gbaVars, lmVars, mapVars, held, histVars>>
    /\ UNCHANGED <<ghostVars, detVars, corrVars, updVars, solVars, rerunVars>>

System ==
    \/ SysRequestMode \/ ModeUpdateActivate \/ ModeUpdateWait \/ ModeUpdateDeactivate
    \/ RequestReset \/ RequestResetWait
    \/ Shutdown \/ ShutdownCheckFinished \/ ShutdownCheckGBA \/ ShutdownJoin

\* ---------------------------------------------------------- specification
Next ==
    \/ MainLoop
    \/ Correct
    \/ \E w \in Workers : Worker(w)
    \/ LocalMapper
    \/ System

Spec == Init /\ [][Next]_vars

\* OS threads are scheduled fairly: a step of the loop closer's thread, of a
\* worker, of the local mapper's stop/finish handshake or of a call the
\* tracking thread is inside of is taken if it stays possible. The requests
\* of the environment (keyframes, mode changes, reset, shutdown) need not come.
Fairness ==
    /\ WF_vars(MainLoop \/ Correct)
    /\ \A w \in Workers : WF_vars(Worker(w))
    /\ WF_vars(LMStop \/ LMFinish)
    /\ WF_vars(ModeUpdateActivate \/ ModeUpdateWait \/ ModeUpdateDeactivate \/ RequestResetWait)
    /\ WF_vars(ShutdownCheckFinished \/ ShutdownCheckGBA \/ ShutdownJoin)

FairSpec == Spec /\ Fairness

\* ------------------------------------- the loop closer's interface, called freely
\* RequestFinish called by a thread of its own, at any time: under the finish
\* lock, finishRequested_ = true
ApiRequestFinish ==
    /\ ~finishRequested
    /\ LockFree("Finish")
    /\ finishRequested' = TRUE
    /\ acqs' = acqs \cup AcqLog(NoLocks, "RequestFinish", <<"Finish">>)
    /\ UNCHANGED <<lcPc, keyFrameQueue, lastLoopKFId, resetRequested, lcFinished,
                   currentKF, found>>
    /\ UNCHANGED <<gbaVars, lmVars, sysVars, mapVars, held>>
    /\ UNCHANGED <<acc, mut, inserted, handed, nInserted, lastInsertedId, resetsDone, aborted>>
    /\ UNCHANGED <<lastCorrected, notErase, resetInsert, popsSinceFinish, detVars, corrVars, updVars, solVars, rerunVars>>

ApiNext == Next \/ ApiRequestFinish

ApiSpec == Init /\ [][ApiNext]_vars

FairApiSpec == ApiSpec /\ Fairness

\* ------------------------------------- Correct called again on the same loop
\* Correct has returned and is called once more with the same Loop (the
\* same current keyframe), before the main loop goes on
CallCorrectAgain ==
    /\ lcPc = "setlast"
    /\ nTasks < MaxTasks
    /\ lcPc' = "c_reqstop"
    /\ UNCHANGED <<keyFrameQueue, lastLoopKFId, resetRequested, finishRequested, lcFinished,
                   currentKF, found>>
    /\ UNCHANGED <<gbaVars, lmVars, sysVars, mapVars, held, histVars>>
    /\ UNCHANGED <<ghostVars, detVars, corrVars, updVars, solVars, rerunVars>>

TwiceNext == Next \/ CallCorrectAgain

TwiceSpec == Init /\ [][TwiceNext]_vars

\* ------------------------------------- the Detector inside the main loop, alone
\* Everything of the loop closer but the Detector's own state and the calls
\* Run makes around Detect is left as constructed.
mainVars == <<lcVars, gbaVars, lmVars, sysVars, mapVars, held, histVars, ghostVars>>

\* Run: currentKF = keyFrameQueue_.front(); pop_front(); currentKF->SetNotErase();
\* the ids of the keyframes grow
DetPop ==
    /\ dPc = "d_pop"
    /\ nDetected < MaxDetKF
    /\ \E d \in IdGaps : dCurrentKF' = dCurrentKF + d
    /\ nDetected' = nDetected + 1
    /\ holds' = SetNotErase(NoHolds, {CurrentKF})
    /\ dFound' = FALSE /\ outcome' = "none"
    /\ dPc' = "d_detect"
    /\ UNCHANGED <<dLastLoopKFId, prevConsistentGroups, tmpCandidateKFs, candidateKFs, chain,
                   matchedKF, nmatches>>
    /\ UNCHANGED <<mainVars, corrVars, updVars, solVars, rerunVars>>

\* Detect: if (nmatches >= 40), with the projection threshold replaced by the
\* inlier threshold of the Sim3 optimization
EnoughMatches_InlierThreshold(n) == n >= 20

\* Detect: if (nmatches >= 40)
EnoughMatches(n) == n >= MinMatches

\* found = detector_.Detect(currentKF, loop, lastLoopKFId_): the admission
\* filter, the database query, the consistency check against
\* prevConsistentGroups_, then FindLoopInCandidateKFs (SetNotErase on every
\* candidate), which fails or sets loop.matchedKF, and the projection test on
\* the number of matched slots, with the SetErase calls of each exit.
\* What the database, the matcher and the solver return is any value.
DetDetect ==
    /\ dPc = "d_detect"
    /\ IF ~PassesFilter(dCurrentKF, dLastLoopKFId)
       THEN /\ outcome' = "filter" /\ dFound' = FALSE
            /\ chain' = NoChain
            /\ UNCHANGED <<prevConsistentGroups, tmpCandidateKFs, candidateKFs, holds,
                           matchedKF, nmatches>>
       ELSE \E tmp \in CandidateLists :
            IF tmp = <<>>
            THEN /\ outcome' = "empty" /\ dFound' = FALSE
                 /\ prevConsistentGroups' = <<>>
                 /\ chain' = NoChain
                 /\ UNCHANGED <<tmpCandidateKFs, candidateKFs, holds, matchedKF, nmatches>>
            ELSE LET r == CheckConsistency(prevConsistentGroups, tmp, 1, <<>>, {}, <<>>)
                     K == {tmp[r.cands[n]].kf : n \in 1..Len(r.cands)}
                     held1 == SetNotErase(holds, K)
                 IN /\ prevConsistentGroups' = r.curr
                    /\ tmpCandidateKFs' = tmp
                    /\ candidateKFs' = r.cands
                    /\ chain' = ChainAfter(chain, tmp)
                    /\ IF r.cands = <<>>
                       THEN /\ outcome' = "notadmitted" /\ dFound' = FALSE
                            /\ UNCHANGED <<holds, matchedKF, nmatches>>
                       ELSE \/ /\ outcome' = "sim3fail" /\ dFound' = FALSE
                               /\ holds' = SetErase(SetErase(held1, K), {CurrentKF})
                               /\ UNCHANGED <<matchedKF, nmatches>>
                            \/ \E matched \in K, n \in MatchCounts :
                               /\ matchedKF' = {matched} /\ nmatches' = n
                               /\ IF EnoughMatches(n)
                                  THEN /\ outcome' = "found" /\ dFound' = TRUE
                                       /\ holds' = SetErase(held1, K \ {matched})
                                  ELSE /\ outcome' = "fewmatches" /\ dFound' = FALSE
                                       /\ holds' = SetErase(held1, K)
    /\ dPc' = "d_branch"
    /\ UNCHANGED <<nDetected, dCurrentKF, dLastLoopKFId>>
    /\ UNCHANGED <<mainVars, corrVars, updVars, solVars, rerunVars>>

\* Run, if (found): keyframeDB_->add(currentKF); corrector_.Correct(...);
\* lastLoopKFId_ = currentKF->id. The database is where the candidates of the
\* later queries come from, which are any here.
DetCorrect ==
    /\ dPc = "d_branch"
    /\ dFound
    /\ dLastLoopKFId' = dCurrentKF
    /\ dPc' = "d_pop"
    /\ tmpCandidateKFs' = <<>> /\ candidateKFs' = <<>>
    /\ matchedKF' = {} /\ nmatches' = 0
    /\ UNCHANGED <<nDetected, dCurrentKF, dFound, outcome,
                   prevConsistentGroups, chain, holds>>
    /\ UNCHANGED <<mainVars, corrVars, updVars, solVars, rerunVars>>

\* Run, else: keyframeDB_->add(currentKF); currentKF->SetErase()
DetSetErase ==
    /\ dPc = "d_branch"
    /\ ~dFound
    /\ holds' = SetErase(holds, {CurrentKF})
    /\ dPc' = "d_pop"
    /\ tmpCandidateKFs' = <<>> /\ candidateKFs' = <<>>
    /\ matchedKF' = {} /\ nmatches' = 0
    /\ UNCHANGED <<nDetected, dCurrentKF, dLastLoopKFId, dFound, outcome,
                   prevConsistentGroups, chain>>
    /\ UNCHANGED <<mainVars, corrVars, updVars, solVars, rerunVars>>

DetNext == DetPop \/ DetDetect \/ DetCorrect \/ DetSetErase

DetectorSpec == Init /\ [][DetNext]_vars

\* --------------------------------------------- LoopCorrector::Correct, alone
\* The steps of Correct on the map, with the threads and the Detector left as
\* constructed.

\* Correct is entered: the map holds any observations, with some map points
\* bad; the current keyframe has passed the admission filter after the last
\* corrected loop, whose keyframe may have stamped points; the stored links of
\* the current keyframe may lack some of the keyframes it shares points with;
\* loop.Scw is a pose near the current one
CorrStart ==
    /\ cPc = "k_idle"
    /\ \E last \in {0, MinLoopGap}, obs \in [CorrKFs -> SUBSET MapPoints],
          bad \in SUBSET MapPoints :
          \E stamp \in {0, last} :
          LET cur == last + MinLoopGap IN
          /\ PassesFilter(cur, last)
          /\ cCurrentKF' = cur
          /\ Scw' = Sim3OfPose(InitialPose(cur) + 3)
          /\ mapPointMatches' = obs
          /\ isBad' = bad
          /\ correctedByKF' = [p \in MapPoints |-> stamp]
          /\ correctedReference' = [p \in MapPoints |-> stamp]
          /\ \E stale \in SUBSET SharedWith(cur, obs, bad) :
                covisible' = [k \in CorrKFs |->
                                 IF k = cur THEN stale ELSE SharedWith(k, obs, bad)]
    /\ cPc' = "k_update"
    /\ UNCHANGED <<pose, worldPos, connectedKFs, CorrectedSim3, NonCorrectedSim3,
                   toCorrect, LoopConnections, nMapped>>
    /\ UNCHANGED <<mainVars, detVars, updVars, solVars, rerunVars>>

\* currentKF->UpdateConnections(); connectedKFs =
\* currentKF->GetVectorCovisibleKeyFrames(); connectedKFs.push_back(currentKF)
CorrUpdateConnections ==
    /\ cPc = "k_update"
    /\ LET fresh == SharedWith(cCurrentKF, mapPointMatches, isBad) IN
          /\ covisible' = [covisible EXCEPT ![cCurrentKF] = fresh]
          /\ connectedKFs' = fresh \cup {cCurrentKF}
    /\ cPc' = "k_propagate"
    /\ UNCHANGED <<cCurrentKF, Scw, pose, mapPointMatches, isBad, worldPos, correctedByKF,
                   correctedReference, CorrectedSim3, NonCorrectedSim3, toCorrect,
                   LoopConnections, nMapped>>
    /\ UNCHANGED <<mainVars, detVars, updVars, solVars, rerunVars>>

\* the propagation loop with NonCorrectedSim3 written only for the neighbours
CorrPropagate_SkipCurrent ==
    /\ cPc = "k_propagate"
    /\ LET Twc == 0 - pose[cCurrentKF] IN
          /\ CorrectedSim3' =
                [k \in connectedKFs |->
                    IF k = cCurrentKF THEN Scw
                    ELSE Compose(Sim3OfPose(pose[k] + Twc), Scw)]
          /\ NonCorrectedSim3' = [k \in connectedKFs \ {cCurrentKF} |-> Sim3OfPose(pose[k])]
    /\ toCorrect' = connectedKFs
    /\ cPc' = "k_points"
    /\ UNCHANGED <<cCurrentKF, Scw, pose, mapPointMatches, isBad, worldPos, correctedByKF,
                   correctedReference, covisible, connectedKFs, LoopConnections, nMapped>>
    /\ UNCHANGED <<mainVars, detVars, updVars, solVars, rerunVars>>

\* CorrectedSim3[currentKF] = Scw; Twc = currentKF->GetPose().Inverse(); under
\* the map lock, for every connectedKF: CorrectedSim3[connectedKF] =
\* Sim3(Tiw * Twc) * Scw unless it is the current keyframe, and
\* NonCorrectedSim3[connectedKF] = Sim3(Tiw)
CorrPropagate ==
    /\ cPc = "k_propagate"
    /\ LET Twc == 0 - pose[cCurrentKF] IN
          /\ CorrectedSim3' =
                [k \in connectedKFs |->
                    IF k = cCurrentKF THEN Scw
                    ELSE Compose(Sim3OfPose(pose[k] + Twc), Scw)]
          /\ NonCorrectedSim3' = [k \in connectedKFs |-> Sim3OfPose(pose[k])]
    /\ toCorrect' = connectedKFs
    /\ cPc' = "k_points"
    /\ UNCHANGED <<cCurrentKF, Scw, pose, mapPointMatches, isBad, worldPos, correctedByKF,
                   correctedReference, covisible, connectedKFs, LoopConnections, nMapped>>
    /\ UNCHANGED <<mainVars, detVars, updVars, solVars, rerunVars>>

\* the map points of one keyframe that the correction loop skips, with the
\* test on the stamp left out
SkippedPoints_NoStampTest(k) == isBad

\* the map points of one keyframe that the correction loop skips:
\* mappoint->isBad() || mappoint->correctedByKF == currentKF->id
SkippedPoints(k) == isBad \cup {p \in MapPoints : correctedByKF[p] = cCurrentKF}

\* one pass of the loop over CorrectedSim3, in the order of the keys (pointer
\* values, any order): the map points of connectedKF not yet stamped are
\* mapped by CorrectedSwi * Siw and stamped, the pose of connectedKF is set
\* from the corrected Sim3, its connections are updated
CorrCorrectPoints(k) ==
    /\ cPc = "k_points"
    /\ k \in toCorrect
    /\ LET correction == Compose(Inverse(CorrectedSim3[k]), NonCorrectedSim3[k])
           points == mapPointMatches[k] \ SkippedPoints(k)
       IN /\ worldPos' = [p \in MapPoints |->
                             IF p \in points THEN MapBy(correction, worldPos[p])
                             ELSE worldPos[p]]
          /\ correctedByKF' = [p \in MapPoints |->
                                  IF p \in points THEN cCurrentKF ELSE correctedByKF[p]]
          /\ correctedReference' = [p \in MapPoints |->
                                       IF p \in points THEN k ELSE correctedReference[p]]
          /\ nMapped' = [p \in MapPoints |->
                            IF p \in points THEN nMapped[p] + 1 ELSE nMapped[p]]
    /\ pose' = [pose EXCEPT ![k] = PoseOfSim3(CorrectedSim3[k])]
    /\ covisible' = [covisible EXCEPT ![k] = SharedWith(k, mapPointMatches, isBad)]
    /\ toCorrect' = toCorrect \ {k}
    /\ cPc' = IF toCorrect = {k} THEN "k_fuse" ELSE "k_points"
    /\ UNCHANGED <<cCurrentKF, Scw, mapPointMatches, isBad, connectedKFs, CorrectedSim3,
                   NonCorrectedSim3, LoopConnections>>
    /\ UNCHANGED <<mainVars, detVars, updVars, solVars, rerunVars>>

\* the loop fusion (matched points added to or replaced in the current
\* keyframe, matcher.Fuse for every corrected keyframe): map points of the
\* loop side become observed by corrected keyframes
CorrFusion ==
    /\ cPc = "k_fuse"
    /\ \E K \in SUBSET connectedKFs, p \in MapPoints \ isBad :
          mapPointMatches' = [k \in CorrKFs |->
                                 IF k \in K THEN mapPointMatches[k] \cup {p}
                                 ELSE mapPointMatches[k]]
    /\ cPc' = "k_loopconn"
    /\ UNCHANGED <<cCurrentKF, Scw, pose, isBad, worldPos, correctedByKF, correctedReference,
                   covisible, connectedKFs, CorrectedSim3, NonCorrectedSim3, toCorrect,
                   LoopConnections, nMapped>>
    /\ UNCHANGED <<mainVars, detVars, updVars, solVars, rerunVars>>

\* the loop connections of one keyframe with only the previous neighbours
\* erased
NewLinks_KeepNeighbourhood(after, prevNeighbors) == after \ prevNeighbors

\* LoopConnections[connectedKF]: GetConnectedKeyFrames() after the update,
\* with prevNeighbors and connectedKFs erased
NewLinks(after, prevNeighbors) == (after \ prevNeighbors) \ connectedKFs

\* for every connectedKF: prevNeighbors = GetVectorCovisibleKeyFrames();
\* UpdateConnections(); LoopConnections[connectedKF] = GetConnectedKeyFrames()
\* minus prevNeighbors minus connectedKFs. The maps are then handed to
\* Optimizer::OptimizeEssentialGraph
CorrLoopConnections ==
    /\ cPc = "k_loopconn"
    /\ covisible' = [k \in CorrKFs |->
                        IF k \in connectedKFs THEN SharedWith(k, mapPointMatches, isBad)
                        ELSE covisible[k]]
    /\ LoopConnections' = [k \in connectedKFs |->
                              NewLinks(SharedWith(k, mapPointMatches, isBad), covisible[k])]
    /\ cPc' = "k_optimize"
    /\ UNCHANGED <<cCurrentKF, Scw, pose, mapPointMatches, isBad, worldPos, correctedByKF,
                   correctedReference, connectedKFs, CorrectedSim3, NonCorrectedSim3,
                   toCorrect, nMapped>>
    /\ UNCHANGED <<mainVars, detVars, updVars, solVars, rerunVars>>

CorrNext ==
    \/ CorrStart \/ CorrUpdateConnections \/ CorrPropagate
    \/ (\E k \in CorrKFs : CorrCorrectPoints(k))
    \/ CorrFusion \/ CorrLoopConnections

CorrectorSpec == Init /\ [][CorrNext]_vars

\* ------------------------------------- the global-BA worker's map update, alone
\* From LOCK_MUTEX_MAP_UPDATE to the end of the map-point loop of
\* GlobalBA::_Run, one step per iteration of its loops.

\* the map as the worker finds it when it has the map lock: a spanning tree,
\* the origins among its roots, the keyframes and map points the bundle
\* adjustment optimized (stamped with loopKFId, TcwGBA / posGBA stored), bad
\* map points, reference keyframes; toCheck is built from the origins
UpdStart ==
    /\ uPc = "u_idle"
    /\ \E par \in Parents, optKFs \in SUBSET UpdKFs, optMPs \in SUBSET MapPoints,
          bad \in SUBSET MapPoints, ref \in [MapPoints -> UpdKFs] :
         \E origins \in SUBSET {k \in UpdKFs : par[k] = 0} :
           \E order \in Orderings(origins) :
             /\ children' = [k \in UpdKFs |-> ChildrenOf(par, k)]
             /\ keyFrameOrigins' = order
             /\ toCheck' = order
             /\ kfPose' = [k \in UpdKFs |-> PoseBefore(k)]
             /\ TcwGBA' = [k \in UpdKFs |->
                              IF k \in optKFs THEN OptimizedPose(k) ELSE IdentityPose]
             /\ TcwBefGBA' = [k \in UpdKFs |-> IdentityPose]
             /\ kfBAGlobalForKF' = [k \in UpdKFs |-> IF k \in optKFs THEN GBALoopKF ELSE 0]
             /\ mpIsBad' = bad
             /\ mpBAGlobalForKF' = [p \in MapPoints |-> IF p \in optMPs THEN GBALoopKF ELSE 0]
             /\ mpReferenceKF' = ref
    /\ mpWorldPos' = [p \in MapPoints |-> InitialWorldPos(p)]
    /\ mpPending' = {}
    /\ visited' = <<>>
    /\ uPc' = "u_walk"
    /\ UNCHANGED <<mainVars, detVars, corrVars, solVars, rerunVars>>

\* the two factors of the product exchanged
ChildTcwGBA_ParentFirst(childPose, Twc, parentTcwGBA) ==
    PoseCompose(parentTcwGBA, PoseCompose(childPose, Twc))

\* child->TcwGBA of a child the bundle adjustment did not optimize:
\* Tchildc * keyframe->TcwGBA with Tchildc = child->GetPose() * Twc
ChildTcwGBA(childPose, Twc, parentTcwGBA) ==
    PoseCompose(PoseCompose(childPose, Twc), parentTcwGBA)

\* one iteration of the while loop over toCheck
UpdWalk ==
    /\ uPc = "u_walk"
    /\ toCheck # <<>>
    /\ LET keyframe == Head(toCheck)
           Twc == PoseInverse(kfPose[keyframe])
           fresh == {c \in children[keyframe] : kfBAGlobalForKF[c] # GBALoopKF}
           gba == [c \in UpdKFs |->
                     IF c \in fresh THEN ChildTcwGBA(kfPose[c], Twc, TcwGBA[keyframe])
                     ELSE TcwGBA[c]]
       IN /\ TcwGBA' = gba
          /\ kfBAGlobalForKF' = [c \in UpdKFs |->
                                    IF c \in fresh THEN GBALoopKF ELSE kfBAGlobalForKF[c]]
          /\ TcwBefGBA' = [TcwBefGBA EXCEPT ![keyframe] = kfPose[keyframe]]
          /\ kfPose' = [kfPose EXCEPT ![keyframe] = gba[keyframe]]
          /\ \E order \in Orderings(children[keyframe]) :
                toCheck' = Tail(toCheck) \o order
          /\ visited' = Append(visited, keyframe)
    /\ UNCHANGED <<uPc, children, keyFrameOrigins, mpIsBad, mpBAGlobalForKF, mpReferenceKF,
                   mpWorldPos, mpPending>>
    /\ UNCHANGED <<mainVars, detVars, corrVars, solVars, rerunVars>>

\* toCheck is empty: the map-point loop starts over GetAllMapPoints
UpdWalkEnd ==
    /\ uPc = "u_walk"
    /\ toCheck = <<>>
    /\ uPc' = "u_points"
    /\ mpPending' = MapPoints
    /\ UNCHANGED <<children, keyFrameOrigins, kfPose, TcwGBA, TcwBefGBA, kfBAGlobalForKF,
                   toCheck, mpIsBad, mpBAGlobalForKF, mpReferenceKF, mpWorldPos, visited>>
    /\ UNCHANGED <<mainVars, detVars, corrVars, solVars, rerunVars>>

\* the position of a map point moved with its reference keyframe: mapped to
\* the camera by TcwBefGBA, back to the world by the inverse of the new pose
MovedWithReference(referenceKF, X) ==
    PoseMap(PoseInverse(kfPose[referenceKF]), PoseMap(TcwBefGBA[referenceKF], X))

\* the map-point loop without its isBad test
UpdMapPoint_MoveBad(p) ==
    /\ uPc = "u_points"
    /\ p \in mpPending
    /\ mpPending' = mpPending \ {p}
    /\ mpWorldPos' =
          IF mpBAGlobalForKF[p] = GBALoopKF
               THEN [mpWorldPos EXCEPT ![p] = OptimizedPos(p)]
          ELSE IF kfBAGlobalForKF[mpReferenceKF[p]] # GBALoopKF THEN mpWorldPos
          ELSE [mpWorldPos EXCEPT ![p] = MovedWithReference(mpReferenceKF[p], mpWorldPos[p])]
    /\ UNCHANGED <<uPc, children, keyFrameOrigins, kfPose, TcwGBA, TcwBefGBA, kfBAGlobalForKF,
                   toCheck, mpIsBad, mpBAGlobalForKF, mpReferenceKF, visited>>
    /\ UNCHANGED <<mainVars, detVars, corrVars, solVars, rerunVars>>

\* one iteration of the loop over the map points
UpdMapPoint(p) ==
    /\ uPc = "u_points"
    /\ p \in mpPending
    /\ mpPending' = mpPending \ {p}
    /\ mpWorldPos' =
          IF p \in mpIsBad THEN mpWorldPos
          ELSE IF mpBAGlobalForKF[p] = GBALoopKF
               THEN [mpWorldPos EXCEPT ![p] = OptimizedPos(p)]
          ELSE IF kfBAGlobalForKF[mpReferenceKF[p]] # GBALoopKF THEN mpWorldPos
          ELSE [mpWorldPos EXCEPT ![p] = MovedWithReference(mpReferenceKF[p], mpWorldPos[p])]
    /\ UNCHANGED <<uPc, children, keyFrameOrigins, kfPose, TcwGBA, TcwBefGBA, kfBAGlobalForKF,
                   toCheck, mpIsBad, mpBAGlobalForKF, mpReferenceKF, visited>>
    /\ UNCHANGED <<mainVars, detVars, corrVars, solVars, rerunVars>>

\* the map-point loop is over
UpdMapPointsEnd ==
    /\ uPc = "u_points"
    /\ mpPending = {}
    /\ uPc' = "u_done"
    /\ UNCHANGED <<children, keyFrameOrigins, kfPose, TcwGBA, TcwBefGBA, kfBAGlobalForKF,
                   toCheck, mpIsBad, mpBAGlobalForKF, mpReferenceKF, mpWorldPos, mpPending,
                   visited>>
    /\ UNCHANGED <<mainVars, detVars, corrVars, solVars, rerunVars>>

UpdNext ==
    \/ UpdStart \/ UpdWalk \/ UpdWalkEnd
    \/ (\E p \in MapPoints : UpdMapPoint(p))
    \/ UpdMapPointsEnd

UpdateSpec == Init /\ [][UpdNext]_vars

\* the worker's thread, once it has the map lock, is scheduled as long as it
\* has a step to take
UpdRunning ==
    \/ UpdWalk \/ UpdWalkEnd
    \/ (\E p \in MapPoints : UpdMapPoint(p))
    \/ UpdMapPointsEnd

FairUpdateSpec == UpdateSpec /\ WF_vars(UpdRunning)

\* ------------------------------------- fixScale and the similarity search, alone
\* System creates the loop closer for its sensor; the Detector calls
\* FindLoopInCandidateKFs, one step per iteration of its loops; the Corrector
\* optimizes the pose graph for a loop the Detector accepted.

\* LoopClosing::Create(..., mSensor != MONOCULAR): the constructors of
\* LoopClosingImpl, LoopDetector and LoopCorrector store the argument
SolCreate ==
    /\ sPc = "s_none"
    /\ \E s \in Sensors :
          /\ sensor' = s
          /\ detFixScale' = FixScaleOf(s)
          /\ corrFixScale' = FixScaleOf(s)
    /\ sPc' = "s_idle"
    /\ UNCHANGED <<fixScale, nFindLoop, ninitialCandidates, candBad, candBoW, discarded,
                   ncandidates, sIdx, iterations, sFound, sMatched, nInliers, scaleArgs,
                   nDiscards>>
    /\ UNCHANGED <<mainVars, detVars, corrVars, updVars, rerunVars>>

\* Detect calls FindLoopInCandidateKFs(currentKF, candidateKFs, loop, fixScale_)
\* with candidates that passed the consistency test
SolFindLoop ==
    /\ sPc = "s_idle"
    /\ nFindLoop < MaxFindLoop
    /\ nFindLoop' = nFindLoop + 1
    /\ fixScale' = detFixScale
    /\ \E n \in CandidateIdx : ninitialCandidates' = n
    /\ candBad' = [i \in CandidateIdx |-> FALSE]
    /\ candBoW' = [i \in CandidateIdx |-> 0]
    /\ discarded' = [i \in CandidateIdx |-> FALSE]
    /\ iterations' = [i \in CandidateIdx |-> 0]
    /\ nDiscards' = [i \in CandidateIdx |-> 0]
    /\ ncandidates' = 0 /\ sIdx' = 1
    /\ sFound' = FALSE /\ sMatched' = 0 /\ nInliers' = 0
    /\ sPc' = "s_setup"
    /\ UNCHANGED <<sensor, detFixScale, corrFixScale, scaleArgs>>
    /\ UNCHANGED <<mainVars, detVars, corrVars, updVars, rerunVars>>

\* a candidate with enough BoW matches gets a solver
EnoughBoW(n) == ~(n < MinBoW)

\* one iteration of the set-up loop
SolSetup ==
    /\ sPc = "s_setup"
    /\ sIdx <= ninitialCandidates
    /\ \E bad \in BOOLEAN, nmatchesBoW \in BoWCounts :
          /\ candBad' = [candBad EXCEPT ![sIdx] = bad]
          /\ IF bad
             THEN /\ discarded' = [discarded EXCEPT ![sIdx] = TRUE]
                  /\ nDiscards' = [nDiscards EXCEPT ![sIdx] = @ + 1]
                  /\ UNCHANGED <<candBoW, scaleArgs, ncandidates>>
             ELSE /\ candBoW' = [candBoW EXCEPT ![sIdx] = nmatchesBoW]
                  /\ IF EnoughBoW(nmatchesBoW)
                     THEN /\ scaleArgs' = scaleArgs \cup {<<"Sim3Solver", fixScale>>}
                          /\ ncandidates' = ncandidates + 1
                          /\ UNCHANGED <<discarded, nDiscards>>
                     ELSE /\ discarded' = [discarded EXCEPT ![sIdx] = TRUE]
                          /\ nDiscards' = [nDiscards EXCEPT ![sIdx] = @ + 1]
                          /\ UNCHANGED <<scaleArgs, ncandidates>>
    /\ sIdx' = sIdx + 1
    /\ UNCHANGED <<sPc, sensor, detFixScale, corrFixScale, fixScale, nFindLoop,
                   ninitialCandidates, iterations, sFound, sMatched, nInliers>>
    /\ UNCHANGED <<mainVars, detVars, corrVars, updVars, rerunVars>>

SolSetupEnd ==
    /\ sPc = "s_setup"
    /\ sIdx > ninitialCandidates
    /\ sPc' = "s_while"
    /\ UNCHANGED <<sensor, detFixScale, corrFixScale, fixScale, nFindLoop, ninitialCandidates,
                   candBad, candBoW, discarded, ncandidates, sIdx, iterations, sFound,
                   sMatched, nInliers, scaleArgs, nDiscards>>
    /\ UNCHANGED <<mainVars, detVars, corrVars, updVars, rerunVars>>

\* while (ncandidates > 0), and 'return false' after it
SolWhile ==
    /\ sPc = "s_while"
    /\ IF ncandidates > 0
       THEN sPc' = "s_for" /\ sIdx' = 1 /\ UNCHANGED sFound
       ELSE sPc' = "s_return" /\ sFound' = FALSE /\ UNCHANGED sIdx
    /\ UNCHANGED <<sensor, detFixScale, corrFixScale, fixScale, nFindLoop, ninitialCandidates,
                   candBad, candBoW, discarded, ncandidates, iterations, sMatched, nInliers,
                   scaleArgs, nDiscards>>
    /\ UNCHANGED <<mainVars, detVars, corrVars, updVars, rerunVars>>

\* any number of inliers accepted
EnoughInliers_Any(n) == n >= 0

\* the refined match is good enough
EnoughInliers(n) == n >= MinInliers

\* one iteration of the for loop inside the while loop: a discarded candidate
\* is skipped; otherwise solver->iterate, which may find a Sim3, and
\* solver->terminate(), which is true at the latest after MaxIterate calls
SolIterate ==
    /\ sPc = "s_for"
    /\ sIdx <= ninitialCandidates
    /\ IF discarded[sIdx]
       THEN /\ sIdx' = sIdx + 1
            /\ UNCHANGED <<sPc, discarded, ncandidates, iterations, sFound, sMatched, nInliers,
                           scaleArgs, nDiscards>>
       ELSE \E foundSim3 \in BOOLEAN, terminate \in BOOLEAN :
               /\ iterations[sIdx] + 1 >= MaxIterate => terminate
               /\ iterations' = [iterations EXCEPT ![sIdx] = @ + 1]
               /\ IF terminate
                  THEN /\ discarded' = [discarded EXCEPT ![sIdx] = TRUE]
                       /\ ncandidates' = ncandidates - 1
                       /\ nDiscards' = [nDiscards EXCEPT ![sIdx] = @ + 1]
                  ELSE UNCHANGED <<discarded, ncandidates, nDiscards>>
               /\ IF foundSim3
                  THEN /\ scaleArgs' = scaleArgs \cup {<<"OptimizeSim3", fixScale>>}
                       /\ \E n \in InlierCounts :
                             /\ nInliers' = n
                             /\ IF EnoughInliers(n)
                                THEN /\ sMatched' = sIdx /\ sFound' = TRUE
                                     /\ sPc' = "s_return"
                                     /\ UNCHANGED sIdx
                                ELSE /\ sIdx' = sIdx + 1
                                     /\ UNCHANGED <<sPc, sFound, sMatched>>
                  ELSE /\ sIdx' = sIdx + 1
                       /\ UNCHANGED <<sPc, sFound, sMatched, nInliers, scaleArgs>>
    /\ UNCHANGED <<sensor, detFixScale, corrFixScale, fixScale, nFindLoop, ninitialCandidates,
                   candBad, candBoW>>
    /\ UNCHANGED <<mainVars, detVars, corrVars, updVars, rerunVars>>

SolForEnd ==
    /\ sPc = "s_for"
    /\ sIdx > ninitialCandidates
    /\ sPc' = "s_while"
    /\ UNCHANGED <<sensor, detFixScale, corrFixScale, fixScale, nFindLoop, ninitialCandidates,
                   candBad, candBoW, discarded, ncandidates, sIdx, iterations, sFound,
                   sMatched, nInliers, scaleArgs, nDiscards>>
    /\ UNCHANGED <<mainVars, detVars, corrVars, updVars, rerunVars>>

\* Detect accepted the loop: Correct runs and calls
\* OptimizeEssentialGraph(..., fixScale_)
SolCorrect ==
    /\ sPc = "s_return"
    /\ sFound
    /\ scaleArgs' = scaleArgs \cup {<<"OptimizeEssentialGraph", corrFixScale>>}
    /\ sPc' = "s_idle"
    /\ UNCHANGED <<sensor, detFixScale, corrFixScale, fixScale, nFindLoop, ninitialCandidates,
                   candBad, candBoW, discarded, ncandidates, sIdx, iterations, sFound,
                   sMatched, nInliers, nDiscards>>
    /\ UNCHANGED <<mainVars, detVars, corrVars, updVars, rerunVars>>

\* Detect returned false: no similarity found, or too few matches afterwards
SolNoLoop ==
    /\ sPc = "s_return"
    /\ sPc' = "s_idle"
    /\ UNCHANGED <<sensor, detFixScale, corrFixScale, fixScale, nFindLoop, ninitialCandidates,
                   candBad, candBoW, discarded, ncandidates, sIdx, iterations, sFound,
                   sMatched, nInliers, scaleArgs, nDiscards>>
    /\ UNCHANGED <<mainVars, detVars, corrVars, updVars, rerunVars>>

\* the steps of FindLoopInCandidateKFs
SolRunning == SolSetup \/ SolSetupEnd \/ SolWhile \/ SolIterate \/ SolForEnd

SolNext == SolCreate \/ SolFindLoop \/ SolRunning \/ SolCorrect \/ SolNoLoop

SolverSpec == Init /\ [][SolNext]_vars

\* the main loop's thread is scheduled while it is inside FindLoopInCandidateKFs
FairSolverSpec == SolverSpec /\ WF_vars(SolRunning)

\* ------------------------------------- the Detector run twice on one stream
\* Detect is called for each keyframe of a stream, then the detector is put
\* back into the state it started from and called for the same keyframes
\* again, with the database, the solver and the matcher answering as before.
\* The map points are those of the map and keep what Detect wrote to them.

\* the caller picks the stream, the lastLoopKFId argument and the detector
\* state both runs start from
RerunStart ==
    /\ rPc = "r_idle"
    /\ \E n \in 1..MaxStream, last \in {0, MinLoopGap}, cache \in InitialCaches :
          /\ rLen' = n /\ rLastLoopKFId' = last
          /\ rCache0' = cache /\ rCache' = cache
    /\ rPc' = "r_run"
    /\ UNCHANGED <<rRun, rPos, rAnswers, loopPointForKF, rResults, rCaches>>
    /\ UNCHANGED <<mainVars, detVars, corrVars, updVars, solVars>>

\* the loop over the map points of the matched keyframe and its neighbours:
\* the points that are not bad and not stamped with the current keyframe's id
LoopMapPoints(seen, kf) == {p \in seen : loopPointForKF[p] # kf}

\* Detect(currentKF, loop, lastLoopKFId) with the answers ans: the cache it
\* leaves, whether it returns true, the loop it returns, the stamps it leaves
DetectWith(kf, ans) ==
    IF ~PassesFilter(kf, rLastLoopKFId)
    THEN [cache |-> rCache, found |-> FALSE, loop |-> NoLoop, stamps |-> loopPointForKF]
    ELSE IF ans.tmp = <<>>
    THEN [cache |-> <<>>, found |-> FALSE, loop |-> NoLoop, stamps |-> loopPointForKF]
    ELSE LET r == CheckConsistency(rCache, ans.tmp, 1, <<>>, {}, <<>>)
         IN IF r.cands = <<>> \/ ~ans.sim3
            THEN [cache |-> r.curr, found |-> FALSE, loop |-> NoLoop,
                  stamps |-> loopPointForKF]
            ELSE LET points == LoopMapPoints(ans.seen, kf)
                     n == ans.base + Cardinality(points)
                 IN [cache |-> r.curr,
                     found |-> EnoughMatches(n),
                     loop |-> IF EnoughMatches(n)
                              THEN [matchedKF |-> ans.tmp[r.cands[1]].kf,
                                    loopMapPoints |-> points]
                              ELSE NoLoop,
                     stamps |-> [p \in MapPoints |->
                                   IF p \in points THEN kf ELSE loopPointForKF[p]]]

\* one Detect call: in the first run the database, the solver and the matcher
\* answer anything, in the second what they answered in the first
RerunDetect ==
    /\ rPc = "r_run"
    /\ rPos <= rLen
    /\ \E ans \in Answers :
          /\ IF rRun = 1 THEN rAnswers' = Append(rAnswers, ans)
             ELSE ans = rAnswers[rPos] /\ UNCHANGED rAnswers
          /\ LET d == DetectWith(StreamKF(rPos), ans)
             IN /\ rCache' = d.cache
                /\ loopPointForKF' = d.stamps
                /\ rResults' = [rResults EXCEPT
                                  ![rRun] = Append(@, [found |-> d.found, loop |-> d.loop])]
                /\ rCaches' = [rCaches EXCEPT ![rRun] = Append(@, d.cache)]
    /\ rPos' = rPos + 1
    /\ UNCHANGED <<rPc, rRun, rLen, rLastLoopKFId, rCache0>>
    /\ UNCHANGED <<mainVars, detVars, corrVars, updVars, solVars>>

\* the first run is over: the detector gets its initial state back and the
\* stream starts again
RerunAgain ==
    /\ rPc = "r_run"
    /\ rPos > rLen /\ rRun = 1
    /\ rRun' = 2 /\ rPos' = 1
    /\ rCache' = rCache0
    /\ UNCHANGED <<rPc, rLen, rLastLoopKFId, rAnswers, rCache0, loopPointForKF, rResults,
                   rCaches>>
    /\ UNCHANGED <<mainVars, detVars, corrVars, updVars, solVars>>

RerunEnd ==
    /\ rPc = "r_run"
    /\ rPos > rLen /\ rRun = 2
    /\ rPc' = "r_done"
    /\ UNCHANGED <<rRun, rPos, rLen, rLastLoopKFId, rAnswers, rCache0, rCache, loopPointForKF,
                   rResults, rCaches>>
    /\ UNCHANGED <<mainVars, detVars, corrVars, updVars, solVars>>

RerunNext == RerunStart \/ RerunDetect \/ RerunAgain \/ RerunEnd

RerunSpec == Init /\ [][RerunNext]_vars

\* ------------------------------------------------------------------ helpers
Range(s) == {s[i] : i \in 1..Len(s)}
IsPrefix(s, t) == Len(s) <= Len(t) /\ \A i \in 1..Len(s) : s[i] = t[i]
NoDuplicates(s) == \A i, j \in 1..Len(s) : s[i] = s[j] => i = j

\* Correct between its wait for the local mapper and its own Release
CorrectAfterWait ==
    {"c_conn0", "c_propagate", "c_fuse", "c_loopconn", "c_optimize", "c_bigchange",
     "c_loopedge", "c_run1", "c_run2", "c_run3", "c_spawn", "c_release"}
InCorrect == {"c_reqstop", "c_running", "c_stop", "c_wait"} \cup CorrectAfterWait

\* a worker inside the part of _Run that applies the correction: from
\* RequestStop to Release
Applying(w) == wPc[w] \in {"w_wait", "w_map", "w_release"}

\* a worker that has captured its index and can still pass the staleness check
CanApply(w) == wPc[w] \in {"w_ba", "w_wait", "w_map", "w_release"} /\ wIdx[w] = fullBAIdx

\* the lock a thread is about to acquire, "" when none
LCWants ==
    IF lcPc \in {"c_running", "c_stop"} THEN "GBA"
    ELSE IF lcPc \in {"c_propagate", "c_fuse"} THEN "Map"
    ELSE ""
WorkerWants(w) ==
    IF wPc[w] = "w_ba" THEN "GBA" ELSE IF wPc[w] = "w_map" THEN "Map" ELSE ""

\* ------------------------------------------------------------------- claims
\* C1: a global-BA worker that existed when Stop() was called never applies
\* its map correction: it never requests a local-mapper stop, writes a pose or
\* a map point position, or bumps the big-change counter.
C1_AbortedWorkerNeverApplies == \A w \in aborted : ~Applying(w)

\* C2: at every moment at most one worker can still pass the staleness check
\* (its captured index equals fullBAIdx) and apply a correction.
C2_AtMostOneActiveTask == Cardinality({w \in Workers : CanApply(w)}) <= 1

C4_StoppedDuringCorrect == lcPc \in CorrectAfterWait => lmStopped

\* C5: every call of Correct eventually returns.
C5_CorrectReturns == (lcPc \in InCorrect) ~> (lcPc = "setlast")

\* C6: a lock is acquired only while holding locks that precede it in the
\* order Queue, Finish, Reset, GBA, Map; the only nested acquisition is Map
\* inside GBA in the worker; the map lock is taken by the Corrector and the
\* worker only (never by the Detector); no two threads wait for each other's
\* locks.
C6_LockOrder ==
    /\ \A a \in acqs : \A h \in a[3] : LockRank[h] < LockRank[a[2]]
    /\ \A a \in acqs : a[3] # {} => a = <<"_Run:Map", "Map", {"GBA"}>>
    /\ \A a \in acqs : a[2] = "Map" => a[1] \in {"Correct:Propagate", "Correct:Fuse", "_Run:Map"}
    /\ \A w \in Workers : held[w] \in {{}, {"GBA"}, {"GBA", "Map"}}
    /\ ~ \E v, w \in Workers : v # w /\ WorkerWants(v) \in held[w] /\ WorkerWants(w) \in held[v]

C6_Witness ==
    /\ <<"_Run:Map", "Map", {"GBA"}>> \in acqs
    /\ \E w \in Workers : LCWants \in held[w]

\* C7: every read and write of the inbound queue and of lastLoopKFId is made
\* while the queue lock is held.
C7_QueueStateUnderQueueLock ==
    \A a \in acc : a[1] \in {"queue", "lastLoopKFId"} => a[3]

\* C8: every read and write of running, finished, stop and fullBAIdx is made
\* while the global-BA lock is held.
C8_TaskStateUnderGBALock ==
    \A a \in acc : a[1] \in {"running", "finished", "stop", "fullBAIdx"} => a[3]

\* C9: without a reset, the keyframes handed to the Detector are a prefix of
\* the keyframes inserted with an id other than 0; a keyframe with id 0 is
\* never queued or processed; no keyframe is dequeued twice.
C9_FifoPrefix ==
    /\ 0 \notin Range(keyFrameQueue) \cup Range(handed)
    /\ lcPc = "detect" => currentKF # 0
    /\ NoDuplicates(handed)
    /\ resetsDone = 0 =>
          /\ IsPrefix(handed, inserted)
          /\ inserted = handed \o (IF lcPc = "detect" THEN <<currentKF>> ELSE <<>>)
                               \o keyFrameQueue

C9_Witness ==
    /\ resetsDone = 0
    /\ Len(handed) = 2
    /\ nInserted = MaxKF

\* C10: every dequeued keyframe is added to the keyframe database exactly
\* once, after Detect has returned for it and before Correct runs, whether or
\* not a loop was found; during Detect it is not in the database.
C10_AddedOnceAfterDetect ==
    /\ NoDuplicates(keyframeDB)
    /\ lcPc = "detect" => currentKF \notin Range(keyframeDB)
    /\ keyframeDB = IF lcPc = "dbadd" THEN SubSeq(handed, 1, Len(handed) - 1) ELSE handed
    /\ lcPc \in InCorrect \cup {"seterase", "setlast"} =>
          keyframeDB[Len(keyframeDB)] = currentKF

C10_Witness ==
    /\ lcPc = "c_reqstop"
    /\ Len(keyframeDB) = 2
    /\ lastLoopKFId = 0

\* C11: whenever the Detector has accepted a loop for the current keyframe,
\* currentKF.id - lastLoopKFId >= 10 (a keyframe with id < lastLoopKFId + 10
\* yields 'no loop'), where lastLoopKFId is 0 initially and after a processed
\* reset, and otherwise the id of the keyframe of the most recent completed
\* correction.
C11_AdmissionGap ==
    /\ found => currentKF - lastLoopKFId >= 10
    /\ (lcPc \in {"dbadd", "seterase"} /\ currentKF < lastLoopKFId + 10) => ~found
    /\ lcPc # "setlast" => lastLoopKFId = lastCorrected

C11_Witness ==
    /\ lcPc = "c_reqstop" /\ found
    /\ lastLoopKFId > 0 /\ lastLoopKFId = lastCorrected

\* C12: starting from an empty consistent-groups cache, a candidate is admitted
\* for Sim3 estimation exactly when its call is at least the third of a run of
\* consecutive Detect calls that each returned a candidate whose covisibility
\* group is consistent with a group of the call before: on the third call of
\* the run, and on no earlier one.
C12_AdmittedOnThirdCall ==
    (dPc = "d_branch" /\ dLastLoopKFId = 0) =>
        \A i \in DOMAIN tmpCandidateKFs :
            (\E n \in DOMAIN candidateKFs : candidateKFs[n] = i)
                <=> chain[GroupOf(tmpCandidateKFs[i])] >= 3

\* C13: whenever a candidate is admitted for Sim3 estimation while keyframe K
\* is processed, K and the two keyframes processed immediately before it each
\* produced a covisibility group, each consistent with the one before, ending
\* with the group of the admitted candidate.
C13_AdmittedAfterThreeConsistent ==
    dPc = "d_branch" =>
        \A n \in DOMAIN candidateKFs :
            chain[GroupOf(tmpCandidateKFs[candidateKFs[n]])] >= 3

\* C14: when an iteration of the main loop has ended with 'no loop', every
\* keyframe has received as many SetErase calls as SetNotErase calls in it.
C14_HoldsReleasedOnNoLoop ==
    (dPc = "d_pop" /\ nDetected > 0 /\ ~dFound) =>
        \A k \in DOMAIN holds : holds[k][1] = holds[k][2]

\* C15: every keyframe pending in the inbound queue has a SetNotErase hold in
\* force, from the moment InsertKeyFrame enqueues it; so has the keyframe
\* being processed.
C15_QueuedKeyFramesHeld ==
    /\ \A i \in DOMAIN keyFrameQueue : keyFrameQueue[i] \in notErase
    /\ lcPc \in {"detect", "dbadd", "seterase"} => currentKF \in notErase

\* C16: RequestReset can return only once the main loop has processed the
\* request; if no InsertKeyFrame ran during the call, the queue is empty and
\* lastLoopKFId is 0 at the moment it returns.
C16_ResetReturnsCleared ==
    /\ (trPc = "reset_wait" /\ ~resetRequested) => resetsDone >= 1
    /\ (trPc = "reset_wait" /\ ~resetRequested /\ ~resetInsert) =>
          (keyFrameQueue = <<>> /\ lastLoopKFId = 0)

C16_Witness ==
    /\ trPc = "reset_wait" /\ ~resetRequested /\ ~resetInsert
    /\ lcPc = "checkfinish"
    /\ nTasks >= 1 /\ handed[Len(handed)] = wLoopKF[nTasks]
    /\ Len(inserted) > Len(handed)

\* C17: after RequestFinish the main loop dequeues at most one more keyframe;
\* once it has left the loop it has set finished, which stays set, and it
\* processes no further keyframe; if the iterations in progress terminate, the
\* request leads to the loop having exited with finished set for good.
C17_FinishAfterCurrentIteration ==
    /\ [](popsSinceFinish <= 1)
    /\ [](lcPc = "exited" => (lcFinished /\ finishRequested))
    /\ [][lcPc = "exited" => (lcPc' = "exited" /\ lcFinished' /\ handed' = handed)]_vars
    /\ ([]<>(lcPc \notin InCorrect)) =>
          (finishRequested ~> [](lcPc = "exited" /\ lcFinished))

C17_Witness ==
    /\ lcPc = "setfinish"
    /\ popsSinceFinish = 1
    /\ keyFrameQueue # <<>>

\* C18: when a second loop was corrected while the task of the first was
\* running, and both workers have ended with no further loop, the big-change
\* counter has advanced exactly twice since the first task was started (when
\* it was 1): by the second correction and by the second task.
C18_BigChangeAdvancesTwice ==
    (/\ nTasks = 2 /\ 1 \in aborted
     /\ lcPc \notin InCorrect
     /\ wPc[1] = "w_done" /\ wPc[2] = "w_done") => bigChangeId - 1 = 2

\* C19: once Stop() has been called on a running task, the stop flag its
\* bundle adjustment reads stays set until that worker has left the bundle
\* adjustment.
C19_StopFlagStaysSet ==
    \A w \in aborted : wPc[w] \in {"w_start", "w_ba"} => stop

\* C20: when System::Shutdown has returned, the main loop has exited and no
\* global-BA worker is still executing.
C20_ShutdownWaitsForAllThreads ==
    trPc = "down" =>
        /\ lcPc = "exited"
        /\ \A w \in Workers : wPc[w] \in {"w_none", "w_done"}

\* C21: the big-change counter equals the number of increments made by
\* Correct (one per call, made before the task is started) plus one for every
\* global-BA task that was not aborted and has applied its update; a task
\* that was aborted adds nothing.
C21_BigChangeCount ==
    bigChangeId =
        nTasks
        + (IF lcPc \in {"c_loopedge", "c_run1", "c_run2", "c_run3", "c_spawn"} THEN 1 ELSE 0)
        + Cardinality({w \in Workers \ aborted : wPc[w] \in {"w_release", "w_done"}})

\* C22: while a worker that was not aborted holds the map lock for its
\* update, until its own Release, the local mapper is stopped or finished.
C22_StoppedDuringWorkerUpdate ==
    \A w \in Workers \ aborted : wPc[w] = "w_release" => (lmStopped \/ lmFinished)

\* the entries of new from j on can be assigned to the cache prev: an entry
\* with count 0 shares no keyframe with any group of prev, every other entry
\* has the count of a group of prev it shares a keyframe with, plus one, and
\* no group of prev (outside used) is assigned to two entries
RECURSIVE DerivedFrom(_, _, _, _)
DerivedFrom(prev, new, j, used) ==
    IF j > Len(new) THEN TRUE
    ELSE \/ /\ new[j][2] = 0
            /\ \A iG \in 1..Len(prev) : ~IsConsistent(prev[iG][1], new[j][1])
            /\ DerivedFrom(prev, new, j + 1, used)
         \/ \E iG \in (1..Len(prev)) \ used :
               /\ IsConsistent(prev[iG][1], new[j][1])
               /\ new[j][2] = prev[iG][2] + 1
               /\ DerivedFrom(prev, new, j + 1, used \cup {iG})

\* C23: a Detect call with a non-empty candidate list leaves a cache whose
\* entries have count 0 when their group shares no keyframe with a group of
\* the cache before the call, and otherwise the count of such a group plus
\* one; each group of the old cache gives rise to at most one new entry.
C23_CountsFromPredecessors ==
    [][(dPc = "d_detect" /\ tmpCandidateKFs' # <<>>)
          => DerivedFrom(prevConsistentGroups, prevConsistentGroups', 1, {})]_vars

C23_Witness ==
    /\ dPc = "d_branch" /\ Len(tmpCandidateKFs) = 2
    /\ Len(prevConsistentGroups) >= 3
    /\ \E i, j \in DOMAIN prevConsistentGroups :
          prevConsistentGroups[i][2] = 0 /\ prevConsistentGroups[j][2] >= 2

\* C24: when the group of the first candidate of a Detect call, the group of
\* no other candidate, shares a keyframe with several cached groups, the new
\* cache holds that group exactly once, with the count of the first of these
\* cached groups plus one.
C24_FirstPredecessorOnly ==
    [][(dPc = "d_detect" /\ tmpCandidateKFs' # <<>>) =>
          LET tmp == tmpCandidateKFs'
              g == GroupOf(tmp[1])
              ids == {iG \in DOMAIN prevConsistentGroups :
                         IsConsistent(prevConsistentGroups[iG][1], g)}
              first == CHOOSE iG \in ids : \A o \in ids : iG <= o
              stored == {j \in DOMAIN prevConsistentGroups' : prevConsistentGroups'[j][1] = g}
          IN (Cardinality(ids) >= 2 /\ \A i \in 2..Len(tmp) : GroupOf(tmp[i]) # g)
                => /\ Cardinality(stored) = 1
                   /\ \A j \in stored :
                         prevConsistentGroups'[j][2] = prevConsistentGroups[first][2] + 1]_vars

\* C25: when the database returns no candidate, Detect leaves an empty cache
\* and reports no loop; when it returns candidates, every entry of the cache
\* after the call is the group of one of these candidates, with a count
\* derived in this call, also when no candidate was admitted.
C25_CacheReplaced ==
    [][dPc = "d_detect" =>
          /\ outcome' = "empty" => (prevConsistentGroups' = <<>> /\ ~dFound')
          /\ tmpCandidateKFs' # <<>> =>
                \A j \in DOMAIN prevConsistentGroups' :
                   \E i \in DOMAIN tmpCandidateKFs' :
                      prevConsistentGroups'[j][1] = GroupOf(tmpCandidateKFs'[i])]_vars

C25_Witness ==
    /\ dPc = "d_branch" /\ outcome = "notadmitted" /\ nDetected >= 3
    /\ \E j \in DOMAIN prevConsistentGroups : prevConsistentGroups[j][2] = 2

\* the keyframes pushed to candidateKFs in the Detect call in progress
Admitted == {tmpCandidateKFs[candidateKFs[n]].kf : n \in DOMAIN candidateKFs}

\* C26: Detect reports a loop only with at least 40 matched slots after the
\* projection search; it has then released every admitted candidate but the
\* matched keyframe exactly once, the matched keyframe and the current
\* keyframe keeping their holds; when the projection test rejects, it has
\* released every admitted candidate, the matched one included, exactly once.
C26_AcceptOnFortyMatches ==
    dPc = "d_branch" =>
        /\ dFound => (nmatches >= MinMatches /\ outcome = "found")
        /\ outcome = "found" =>
              /\ matchedKF \subseteq Admitted /\ Cardinality(matchedKF) = 1
              /\ \A k \in Admitted \ matchedKF : holds[k] = <<1, 1>>
              /\ \A k \in matchedKF : holds[k] = <<1, 0>>
              /\ holds[CurrentKF] = <<1, 0>>
        /\ outcome = "fewmatches" =>
              /\ nmatches < MinMatches
              /\ \A k \in Admitted : holds[k] = <<1, 1>>

C26_Witness ==
    /\ dPc = "d_branch" /\ outcome = "found" /\ nmatches = MinMatches
    /\ Cardinality(Admitted) = 2

\* C27: the step of the main loop that processes a reset request is taken
\* between two iterations, outside Detect and Correct; it empties the inbound
\* queue, sets lastLoopKFId to 0 and clears the reset flag, and leaves the
\* global-BA task state, the Detector's cache, the map, the keyframe holds,
\* the finish state and the local mapper as they were.
C27_ResetFrame ==
    [][(resetRequested /\ ~resetRequested') =>
          /\ lcPc = "reset" /\ lcPc' = "checkfinish"
          /\ keyFrameQueue' = <<>> /\ lastLoopKFId' = 0
          /\ UNCHANGED <<gbaVars, mapVars, lmVars, held, notErase>>
          /\ UNCHANGED <<prevConsistentGroups, holds>>
          /\ UNCHANGED <<finishRequested, lcFinished, currentKF, found, mut>>]_vars

C27_Witness ==
    /\ resetsDone = 1 /\ lcPc = "checkfinish" /\ trPc = "reset_wait"
    /\ running /\ \E w \in Workers : wPc[w] = "w_ba"
    /\ bigChangeId >= 1 /\ keyframeDB # <<>>
    /\ notErase # {}

\* the steps of Correct after the propagation loop
PropagationDone == {"k_points", "k_fuse", "k_loopconn", "k_optimize"}

\* C28: connectedKFs is the current keyframe with the keyframes it shares
\* points with at the initial refresh; from the propagation on, up to the call
\* of the optimizer, NonCorrectedSim3 has for each of them the pose the
\* keyframe had before any pose was rewritten, and CorrectedSim3 has the same
\* keys.
C28_NonCorrectedIsOriginalPose ==
    /\ cPc = "k_propagate" =>
          connectedKFs = {cCurrentKF} \cup SharedWith(cCurrentKF, mapPointMatches, isBad)
    /\ cPc \in PropagationDone =>
          /\ cCurrentKF \in connectedKFs
          /\ DOMAIN NonCorrectedSim3 = connectedKFs
          /\ DOMAIN CorrectedSim3 = DOMAIN NonCorrectedSim3
          /\ \A N \in connectedKFs : NonCorrectedSim3[N] = Sim3OfPose(InitialPose(N))

C28_Witness ==
    /\ cPc = "k_optimize" /\ Cardinality(connectedKFs) >= 3
    /\ \A N \in connectedKFs : pose[N] # InitialPose(N)

\* C29: a map point is mapped at most once in a Correct call; when the loop
\* over the corrected keyframes has ended, every map point that is not bad
\* and is observed by a corrected keyframe has been mapped exactly once; every
\* point stamped with the id of the current keyframe has as correctedReference
\* a corrected keyframe that observes it, and its position is the old one
\* mapped by the correction of that keyframe.
C29_MappedOnce ==
    /\ \A p \in MapPoints : nMapped[p] <= 1
    /\ cPc = "k_fuse" =>
          \A p \in MapPoints \ isBad :
             (\E k \in connectedKFs : p \in mapPointMatches[k])
                => (nMapped[p] = 1 /\ correctedByKF[p] = cCurrentKF)
    /\ cPc \in {"k_fuse", "k_loopconn", "k_optimize"} =>
          \A p \in MapPoints :
             correctedByKF[p] = cCurrentKF =>
                LET ref == correctedReference[p] IN
                /\ ref \in connectedKFs
                /\ p \in mapPointMatches[ref]
                /\ nMapped[p] = 1
                /\ worldPos[p] =
                      MapBy(Compose(Inverse(CorrectedSim3[ref]), NonCorrectedSim3[ref]),
                            InitialWorldPos(p))

C29_Witness ==
    /\ cPc = "k_fuse"
    /\ \E p \in MapPoints :
          /\ nMapped[p] = 1 /\ worldPos[p] # InitialWorldPos(p)
          /\ Cardinality({k \in connectedKFs : p \in mapPointMatches[k]}) >= 3

\* C30: the loop connections computed for a corrected keyframe N are N's
\* covisible keyframes after the refresh, minus those it had before the
\* refresh, minus the corrected neighbourhood (the current keyframe and its
\* covisible keyframes collected at the start); no loop connection leads to a
\* keyframe of the corrected neighbourhood.
C30_LoopConnections ==
    [][(cPc = "k_loopconn" /\ cPc' = "k_optimize") =>
          /\ DOMAIN LoopConnections' = connectedKFs
          /\ \A N \in connectedKFs :
                /\ LoopConnections'[N] = (covisible'[N] \ covisible[N]) \ connectedKFs
                /\ LoopConnections'[N] \cap connectedKFs = {}]_vars

C30_Witness ==
    /\ cPc = "k_optimize"
    /\ \E N \in connectedKFs : LoopConnections[N] # {}
    /\ \E N \in connectedKFs : (covisible[N] \ connectedKFs) \ LoopConnections[N] # {}
    /\ \E N, M \in connectedKFs :
          N # cCurrentKF /\ M # cCurrentKF /\ M \in covisible[N]

\* C31: the end of Correct runs in this order: pose-graph optimization, bump
\* of the big-change counter, loop edges, GlobalBA::Run, which spawns the task
\* with the id of the current keyframe, Release of the local mapper; Correct
\* releases the local mapper at no other step, so once per call and not
\* before the task is spawned.
C31_CorrectTailOrder ==
    [][lcPc' # lcPc =>
          /\ lcPc = "c_optimize" => (lcPc' = "c_bigchange" /\ UNCHANGED <<bigChangeId, nTasks>>)
          /\ lcPc = "c_bigchange" =>
                (lcPc' = "c_loopedge" /\ bigChangeId' = bigChangeId + 1 /\ UNCHANGED nTasks)
          /\ lcPc = "c_loopedge" => (lcPc' = "c_run1" /\ UNCHANGED <<bigChangeId, nTasks>>)
          /\ lcPc = "c_run1" => (lcPc' = "c_run2" /\ UNCHANGED <<bigChangeId, nTasks>>)
          /\ lcPc = "c_run2" => (lcPc' = "c_run3" /\ UNCHANGED <<bigChangeId, nTasks>>)
          /\ lcPc = "c_run3" => (lcPc' = "c_spawn" /\ UNCHANGED <<bigChangeId, nTasks>>)
          /\ lcPc = "c_spawn" =>
                /\ lcPc' = "c_release" /\ nTasks' = nTasks + 1
                /\ wPc'[nTasks'] = "w_start" /\ wLoopKF'[nTasks'] = currentKF
          /\ lcPc = "c_release" =>
                /\ lcPc' = "setlast" /\ UNCHANGED <<bigChangeId, nTasks>>
                /\ ~lmFinished => (~lmStopped' /\ ~lmStopRequested')
          /\ (lcPc \in InCorrect /\ lcPc # "c_release") =>
                (lmStopped' = lmStopped /\ (lmStopRequested => lmStopRequested'))]_vars

C31_Witness ==
    /\ lcPc = "setlast" /\ nTasks = 1 /\ bigChangeId = 1
    /\ wLoopKF[1] = currentKF /\ wPc[1] = "w_start"
    /\ ~lmStopped /\ ~lmStopRequested /\ ~lmFinished

\* C38: a Detect call rejected by the admission filter leaves the cache as it
\* was; the cache changes in no step but a Detect call whose keyframe passes
\* the filter, so the first such call after an accepted loop finds the groups
\* and counts cached when the loop was accepted.
C38_FilterKeepsCache ==
    [][/\ (dPc = "d_detect" /\ dCurrentKF < dLastLoopKFId + MinLoopGap)
             => (prevConsistentGroups' = prevConsistentGroups /\ ~dFound')
       /\ prevConsistentGroups' # prevConsistentGroups
             => (dPc = "d_detect" /\ ~(dCurrentKF < dLastLoopKFId + MinLoopGap))]_vars

C38_Witness ==
    /\ dPc = "d_branch" /\ outcome = "filter" /\ dLastLoopKFId > 0
    /\ \E j \in DOMAIN prevConsistentGroups : prevConsistentGroups[j][2] >= minConsistency

\* C40: a worker that has entered its completion section with the task
\* neither stale nor stopped, and so waits for the local mapper while holding
\* the global-BA lock, eventually leaves the section and drops the lock.
C40_WorkerLeavesCompletion ==
    \A w \in Workers : (wPc[w] = "w_wait") ~> (wPc[w] = "w_done" /\ held[w] = {})

\* C39: if the main loop leaves every Correct it enters, every call of
\* RequestReset returns, also when RequestFinish was called before it or
\* while it waits.
C39_RequestResetReturns ==
    ([]<>(lcPc \notin InCorrect)) => ((trPc = "reset_wait") ~> (trPc = "idle"))

RECURSIVE ReachableFrom(_, _)
ReachableFrom(S, n) ==
    IF n = 0 THEN S
    ELSE ReachableFrom(S \cup UNION {children[k] : k \in S}, n - 1)

\* what holds of the walk in every state: the visits and the visited keyframes
C32_WalkState ==
    uPc # "u_idle" =>
       /\ NoDuplicates(visited)
       /\ \A i, j \in 1..Len(visited) : visited[j] \in children[visited[i]] => i < j
       /\ Range(visited) \subseteq ReachableFrom(Range(keyFrameOrigins), MaxUpdKF)
       /\ uPc \in {"u_points", "u_done"}
             => Range(visited) = ReachableFrom(Range(keyFrameOrigins), MaxUpdKF)
       /\ \A k \in Range(visited) :
             /\ TcwBefGBA[k] = PoseBefore(k)
             /\ kfPose[k] = TcwGBA[k]
             /\ \A c \in children[k] : kfBAGlobalForKF[c] = GBALoopKF

\* what the visit of a keyframe does to the TcwGBA and the stamps
C32_WalkStep ==
    (uPc = "u_walk" /\ visited' # visited) =>
       LET keyframe == visited'[Len(visited')]
       IN /\ keyframe = Head(toCheck)
          /\ \A c \in UpdKFs :
                IF c \in children[keyframe] /\ kfBAGlobalForKF[c] # GBALoopKF
                THEN /\ TcwGBA'[c] =
                           PoseCompose(PoseCompose(PoseBefore(c),
                                                   PoseInverse(PoseBefore(keyframe))),
                                       TcwGBA[keyframe])
                     /\ kfBAGlobalForKF'[c] = GBALoopKF
                ELSE /\ TcwGBA'[c] = TcwGBA[c]
                     /\ kfBAGlobalForKF'[c] = kfBAGlobalForKF[c]

\* C32: the walk visits every keyframe reachable from the origins through
\* child links exactly once, a parent before its children; a visited keyframe
\* has TcwBefGBA equal to its pose before the walk and its pose equal to
\* TcwGBA, and its children are stamped with loopKFId; the visit of a keyframe
\* gives each child without the stamp the TcwGBA
\* (child pose before * inverse of parent pose before) * parent TcwGBA and
\* leaves every other TcwGBA alone; the walk ends.
C32_TreeWalk ==
    /\ []C32_WalkState
    /\ [][C32_WalkStep]_vars
    /\ (uPc = "u_walk") ~> (uPc = "u_points")

C32_Witness ==
    /\ uPc = "u_done"
    /\ visited = <<1, 2, 3>>
    /\ children[1] = {2} /\ children[2] = {3}
    /\ TcwGBA[2] = PoseCompose(PoseCompose(PoseBefore(2), PoseInverse(PoseBefore(1))),
                               OptimizedPose(1))
    /\ TcwGBA[2] # OptimizedPose(2)
    /\ TcwGBA[3] = OptimizedPose(3)
    /\ \A k \in UpdKFs : kfPose[k] = TcwGBA[k] /\ TcwBefGBA[k] = PoseBefore(k)

\* what a step leaves alone
C33_PointStep ==
    uPc # "u_idle" =>
       \A p \in MapPoints :
          (\/ uPc = "u_walk"
           \/ p \in mpIsBad
           \/ (/\ mpBAGlobalForKF[p] # GBALoopKF
               /\ kfBAGlobalForKF[mpReferenceKF[p]] # GBALoopKF))
             => mpWorldPos'[p] = mpWorldPos[p]

\* where a map point is once the pass has visited it
C33_PointState ==
    \A p \in MapPoints :
       /\ (uPc = "u_done" \/ (uPc = "u_points" /\ p \notin mpPending))
             => /\ p \in mpIsBad => mpWorldPos[p] = InitialWorldPos(p)
                /\ (p \notin mpIsBad /\ mpBAGlobalForKF[p] = GBALoopKF)
                      => mpWorldPos[p] = OptimizedPos(p)
                /\ (/\ mpBAGlobalForKF[p] # GBALoopKF
                    /\ kfBAGlobalForKF[mpReferenceKF[p]] # GBALoopKF)
                      => mpWorldPos[p] = InitialWorldPos(p)

\* C33: a step of the map-point pass leaves the position of a bad map point
\* alone, and that of a map point without the loopKFId stamp whose reference
\* keyframe has no loopKFId stamp; the walk moves no map point; a map point
\* that is not bad and has the stamp is at posGBA once the pass has visited it.
C33_MapPointPass == [][C33_PointStep]_vars /\ []C33_PointState

C33_Witness ==
    /\ uPc = "u_done"
    /\ visited # <<>>
    /\ 1 \in mpIsBad /\ mpBAGlobalForKF[1] = GBALoopKF /\ mpWorldPos[1] = InitialWorldPos(1)
    /\ 2 \notin mpIsBad /\ mpBAGlobalForKF[2] = GBALoopKF /\ mpWorldPos[2] = OptimizedPos(2)

\* the members and the values passed on agree with the sensor
C34_FixScaleState ==
    sPc # "s_none" =>
       /\ detFixScale = (sensor # "MONOCULAR")
       /\ corrFixScale = (sensor # "MONOCULAR")
       /\ \A a \in scaleArgs : a[2] = (sensor # "MONOCULAR")

\* C34: once the loop closer is created, the fixScale_ members of its
\* detector and of its corrector are true exactly when the sensor is not
\* monocular, every fixScale value passed to a Sim3Solver, to OptimizeSim3 or
\* to OptimizeEssentialGraph is that value, and no step changes the sensor or
\* the members.
C34_FixScaleKept ==
    /\ []C34_FixScaleState
    /\ [][sPc # "s_none" => UNCHANGED <<sensor, detFixScale, corrFixScale>>]_vars

C34_Witness ==
    /\ sensor = "STEREO" /\ nFindLoop = MaxFindLoop
    /\ scaleArgs = {<<"Sim3Solver", TRUE>>, <<"OptimizeSim3", TRUE>>,
                    <<"OptimizeEssentialGraph", TRUE>>}

\* the candidates, the count and the result in every state
C35_RansacState ==
    /\ ncandidates >= 0
    /\ \A i \in CandidateIdx : nDiscards[i] <= 1 /\ (discarded[i] <=> nDiscards[i] = 1)
    /\ sPc \in {"s_while", "s_for", "s_return"}
          => ncandidates = Cardinality({i \in 1..ninitialCandidates : ~discarded[i]})
    /\ (sPc = "s_return" /\ sFound)
          => /\ sMatched \in 1..ninitialCandidates
             /\ ~candBad[sMatched]
             /\ candBoW[sMatched] >= MinBoW
             /\ nInliers >= MinInliers
    /\ (sPc = "s_return" /\ ~sFound)
          => \A i \in 1..ninitialCandidates : discarded[i]

\* C35: a candidate is discarded at most once; the count of live candidates
\* is never negative and, once the set-up is over, is the number of
\* candidates not discarded; FindLoopInCandidateKFs returns a loop only for a
\* candidate that was not bad at set-up, had at least 20 BoW matches and
\* reached at least 20 refined inliers, and returns 'no loop' only when every
\* candidate is discarded; with solvers that report terminate() after at most
\* MaxIterate iterate calls, every call returns.
C35_RansacTerminates ==
    /\ []C35_RansacState
    /\ (sPc \in {"s_setup", "s_while", "s_for"}) ~> (sPc = "s_return")

C35_Witness ==
    /\ sPc = "s_return" /\ sFound /\ sMatched = 2 /\ ninitialCandidates = 2
    /\ discarded[1] /\ ~candBad[1] /\ candBoW[1] >= MinBoW /\ iterations[1] >= 1
    /\ ~discarded[2] /\ nInliers = MinInliers

\* C36: in the second run every Detect call returns what the same call
\* returned in the first run and leaves the same consistent-groups cache.
C36_SameOnRerun ==
    \A i \in 1..Len(rResults[2]) :
       /\ rResults[2][i] = rResults[1][i]
       /\ rCaches[2][i] = rCaches[1][i]

====
